---- MODULE Spec2Model ----
(***************************************************************************)
(* Door-Garage-Opener firmware: the CC1101 register protocol (SPIBus),     *)
(* the configuration applier, the Transceiver controller, the SC41344      *)
(* encoder / frame streamer and the CircularDebounceBuffer engine.         *)
(*                                                                         *)
(* The chip behind the SPI bus is modelled as a register store; the line   *)
(* behaviour during one call (the fault of each transaction) is an input   *)
(* of the call.  Every call records the pin-level events it produced in    *)
(* `log`, so that properties on the order and number of bus transfers and  *)
(* waveform symbols can be stated.                                         *)
(***************************************************************************)
EXTENDS Integers, Sequences, FiniteSets, TLC

VARIABLES
    chip,           \* the CC1101 behind the bus: [regs, pa, ro]
    line,           \* the SPI line: [quiet, script, tail], the faults of the coming transactions
    csn,            \* level of the chip-select line: 0 = LOW (selected), 1 = HIGH
    call,           \* the last operation called: [name, args, line at the call]
    ret,            \* what it returned (with the values of its locals)
    log,            \* pin-level events produced by the last operation
    debouncing,     \* CircularDebounceBuffer::_debouncing
    stableState,    \* CircularDebounceBuffer::_stableState
    pressedDetected,\* CircularDebounceBuffer::_pressedDetected
    buffer,         \* CircularDebounceBuffer::_buffer, slots 0..BUFFER_SIZE-1
    head,           \* CircularDebounceBuffer::_head
    thresholdPercentage, \* CircularDebounceBuffer::_thresholdPercentage
    callbacks,      \* CircularDebounceBuffer::_callbacks[0.._callbackCounter-1]
    elapsed,        \* Delay: the sample interval has elapsed since previousTime
    delayTime,      \* Delay::delayTime of the sample timer, in microseconds
    pin,            \* raw level of the button pin: TRUE = HIGH (released, pull-up)
    pinChanges,     \* history: number of level changes of the pin so far
    session,        \* history: [phase, presses], what happened since the callbacks last fired
    mcu             \* the microcontroller: global interrupt enable, watchdog, pending
                    \* edge interrupt, and where loop() stands

radioVars    == <<chip, line, csn, call, ret, log>>
debounceVars == <<debouncing, stableState, pressedDetected, buffer, head,
                  thresholdPercentage, callbacks, elapsed, delayTime, pin,
                  pinChanges, session>>
vars         == <<radioVars, debounceVars, mcu>>

----------------------------------------------------------------------------
(* Bytes and the bit operations of the C code                              *)

\* bit i of x
Bit(x, i) == (x \div 2^i) % 2

\* bit i of x & y, in place
AndBit(x, y, i) == 2^i * (Bit(x, i) * Bit(y, i))

\* x & y, byte by byte
RECURSIVE BitAnd(_, _)
BitAnd(x, y) ==
    (((AndBit(x, y, 0) + AndBit(x, y, 1)) + (AndBit(x, y, 2) + AndBit(x, y, 3)))
        + ((AndBit(x, y, 4) + AndBit(x, y, 5)) + (AndBit(x, y, 6) + AndBit(x, y, 7))))
    + (IF x < 256 \/ y < 256 THEN 0 ELSE 256 * BitAnd(x \div 256, y \div 256))

\* x | y
BitOr(x, y) == (x + y) - BitAnd(x, y)

\* ~m on a uint8_t
BitNot8(m) == 255 - m

----------------------------------------------------------------------------
(* SPI address-byte masks                                                  *)

WriteSingle        == 127
ReadSingle         == 128
writeBurstRegister_flag == 64
readBurstRegister_flag  == 192
AddressMask        == 63
DummyByte          == 0

(* CC1101 register addresses and strobes                                   *)
IOCFG0    == 2
FIFOTHR   == 3
PKTLEN    == 6
FREQ2     == 13
FREQ1     == 14
FREQ0     == 15
FREND0    == 34
PATABLE   == 62
PARTNUM   == 48
VERSION   == 49
MARCSTATE == 53
Value_FREND0 == 17

SRES  == 48
STX   == 53
SIDLE == 54
SPWD  == 57

paTable == <<3, 13, 28, 52, 81, 133, 200, 192>>

\* Config_315MHz_OOK::setting_Regs : <<reg, reg_value, verify>>
setting_Regs == <<
    <<2, 46, TRUE>>,   <<3, 7, TRUE>>,    <<6, 255, FALSE>>, <<8, 50, TRUE>>,
    <<11, 6, TRUE>>,   <<12, 0, TRUE>>,   <<13, 12, TRUE>>,  <<14, 28, TRUE>>,
    <<15, 236, TRUE>>, <<16, 245, TRUE>>, <<17, 131, TRUE>>, <<18, 48, TRUE>>,
    <<19, 2, TRUE>>,   <<21, 21, FALSE>>, <<23, 48, TRUE>>,  <<24, 24, TRUE>>,
    <<32, 251, TRUE>>, <<33, 182, TRUE>>, <<34, 17, TRUE>>,  <<35, 233, FALSE>>,
    <<36, 42, FALSE>>, <<37, 0, FALSE>>,  <<38, 31, FALSE>>,
    \* NUM_REG_TO_CONFIG_CC1101 = 24 with 23 initialisers: the last is zeroed
    <<0, 0, FALSE>> >>

----------------------------------------------------------------------------
(* The events an operation leaves in the log                               *)

Ev(e, a, b) == [e |-> e, a |-> a, b |-> b, c |-> 0]
\* one byte exchanged on the bus: out, in, and the CSn level at that time
XferEv(out, in, level) == [e |-> "xfer", a |-> out, b |-> in, c |-> level]

----------------------------------------------------------------------------
(* The chip and the line.  A transaction is the byte sequence `out` sent   *)
(* between two CSn edges; the line fault of the transaction is            *)
(*   "ok"  : the chip receives the bytes and answers honestly,            *)
(*   "ff"  : MISO reads 0xFF on every byte and the chip receives nothing,  *)
(*   "bad" : a write or strobe is ignored, a read returns a wrong value.   *)
(* chip.ro is the set of registers of this chip that ignore single writes. *)

Faults == {"ok", "ff", "bad"}

Corrupt(v) == IF v % 2 = 0 THEN v + 1 ELSE v - 1

\* status byte: chip state in bits 6..4, FIFO bytes in bits 3..0
StatusOf(c) == IF c.regs[MARCSTATE] = 19 THEN 47 ELSE 15

PowerOnRegs(partnum, version) ==
    [a \in 0..63 |-> IF a = PARTNUM THEN partnum
                     ELSE IF a = VERSION THEN version
                     ELSE IF a = MARCSTATE THEN 1
                     ELSE 0]

\* a chip whose ro holds MARCSTATE does not reach the TX state on STX (its
\* synthesizer is still calibrating, or never locks, when the state is read)
Strobed(c, cmd) ==
    IF cmd = STX
    THEN IF MARCSTATE \in c.ro THEN c ELSE [c EXCEPT !.regs[MARCSTATE] = 19]
    ELSE IF cmd = SIDLE THEN [c EXCEPT !.regs[MARCSTATE] = 1]
    ELSE IF cmd = SPWD THEN [c EXCEPT !.regs[MARCSTATE] = 0]
    ELSE IF cmd = SRES
         THEN [c EXCEPT !.regs = PowerOnRegs(c.regs[PARTNUM], c.regs[VERSION])]
    ELSE c

ChipReply(c, out, f) ==
    LET h  == out[1]
        a  == h % 64
        n  == Len(out)
        st == StatusOf(c)
    IN  IF f = "ff" THEN [chip |-> c, in |-> [i \in 1..n |-> 255]]
        ELSE IF n = 1 THEN                      \* command strobe
            [chip |-> IF f = "ok" THEN Strobed(c, h) ELSE c, in |-> <<st>>]
        ELSE IF h < 64 THEN                     \* single write
            [chip |-> IF f = "ok" /\ a \notin c.ro
                      THEN [c EXCEPT !.regs[a] = out[2]] ELSE c,
             in   |-> [i \in 1..n |-> st]]
        ELSE IF h < 128 THEN                    \* burst write
            [chip |-> IF f # "ok" THEN c
                      ELSE IF a = PATABLE
                      THEN [c EXCEPT !.pa = [i \in 1..8 |->
                                IF i + 1 <= n THEN out[i + 1] ELSE @[i]]]
                      ELSE [c EXCEPT !.regs = [r \in 0..63 |->
                                IF r >= a /\ r - a + 2 <= n THEN out[r - a + 2] ELSE @[r]]],
             in   |-> [i \in 1..n |-> st]]
        ELSE IF h < 192 THEN                    \* single read
            [chip |-> c,
             in   |-> <<st, IF f = "ok" THEN c.regs[a] ELSE Corrupt(c.regs[a])>>]
        ELSE                                    \* burst read
            [chip |-> c,
             in   |-> [i \in 1..n |->
                        IF i = 1 THEN st
                        ELSE LET v == IF a = PATABLE
                                      THEN c.pa[((i - 2) % 8) + 1]
                                      ELSE c.regs[IF a + i - 2 <= 63 THEN a + i - 2 ELSE 63]
                             IN  IF f = "ok" THEN v ELSE Corrupt(v)]]

\* io: the machine seen by the code during one call
\*   [chip, csn, log, quiet, script, tail]: the next `quiet` transactions are
\*   clean, then script gives the fault of each coming transaction, and tail
\*   the fault of every transaction after the script
NextFault(io) ==
    IF io.quiet > 0 THEN "ok"
    ELSE IF io.script = <<>> THEN io.tail
    ELSE Head(io.script)

----------------------------------------------------------------------------
(* SPIBus                                                                  *)

selectDevice(io) ==
    [io EXCEPT !.csn = 0, !.log = Append(@, Ev("csn", 0, 0))]

deselectDevice(io) ==
    [io EXCEPT !.csn = 1, !.log = Append(@, Ev("csn", 1, 0))]

\* sequencing: v is the outcome of a step, F the rest of the function; the
\* result is F(v), with v computed before F starts
Bind(v, F(_)) == CHOOSE y \in {F(x) : x \in {v}} : TRUE

\* the SPI.transfer calls of one transaction body
SPI_transfer(io, out) ==
    Bind(ChipReply(io.chip, out, NextFault(io)), LAMBDA rep :
        [io |-> [io EXCEPT !.chip = rep.chip,
                           !.quiet = IF @ > 0 THEN @ - 1 ELSE 0,
                           !.script = IF io.quiet > 0 \/ @ = <<>> THEN @ ELSE Tail(@),
                           !.log = @ \o [i \in 1..Len(out) |->
                                           XferEv(out[i], rep.in[i], io.csn)]],
         in |-> rep.in])

\* applyTransaction leaving the device selected
applyTransaction_noDeselect(io, out) ==
    Bind(SPI_transfer(selectDevice(io), out), LAMBDA t :
        [io |-> t.io, in |-> t.in])

applyTransaction(io, out) ==
    Bind(SPI_transfer(selectDevice(io), out), LAMBDA t :
        [io |-> deselectDevice(t.io), in |-> t.in])

transferByte(io, data) ==
    Bind(applyTransaction(io, <<data>>), LAMBDA t :
        [io |-> t.io, in |-> t.in[1]])

ReadResult(status, value) == [status |-> status, value |-> value]

isValid(r) == r.status # 255 /\ r.value # 255

RECURSIVE repeat_withExitCondition(_, _, _)

\* readRegister without its address validation
readRegister_unchecked(io, address) ==
    Bind(repeat_withExitCondition(3, "readRegister",
             [io |-> io, address |-> address,
              result |-> ReadResult(255, 255), attempts |-> 0]), LAMBDA s :
        [io |-> s.io, result |-> s.result, attempts |-> s.attempts])

\* the retry lambda of readRegister
readRegister_attempt(s) ==
    Bind(BitOr(s.address, ReadSingle), LAMBDA header :
    Bind(applyTransaction(s.io, <<header, DummyByte>>), LAMBDA t :
    Bind(ReadResult(t.in[1], t.in[2]), LAMBDA r :
        [s     |-> [s EXCEPT !.io = t.io, !.result = r,
                             !.attempts = IF isValid(r) THEN @ ELSE @ + 1],
         again |-> ~isValid(r)])))

readRegister(io, address) ==
    IF address > AddressMask
    THEN [io |-> io, result |-> ReadResult(255, 255), attempts |-> 0]
    ELSE Bind(repeat_withExitCondition(3, "readRegister",
                  [io |-> io, address |-> address,
                   result |-> ReadResult(255, 255), attempts |-> 0]), LAMBDA s :
             [io |-> s.io, result |-> s.result, attempts |-> s.attempts])

\* the retry lambda of writeRegister with the write mask or-ed into the
\* address instead of and-ed
writeRegister_attempt_orMask(s) ==
    Bind(BitOr(s.address, WriteSingle), LAMBDA header :
    Bind(applyTransaction(s.io, <<header, s.value>>), LAMBDA w :
    Bind(readRegister(w.io, s.address), LAMBDA rd :
    Bind(isValid(rd.result) /\ rd.result.value = s.value, LAMBDA ok :
        [s     |-> [s EXCEPT !.io = rd.io, !.readResult = rd.result,
                             !.writes = @ + 1,
                             !.attempts = IF ok THEN @ ELSE @ + 1],
         again |-> ~ok]))))

\* the retry lambda of writeRegister
writeRegister_attempt(s) ==
    Bind(BitAnd(s.address, WriteSingle), LAMBDA header :
    Bind(applyTransaction(s.io, <<header, s.value>>), LAMBDA w :
    Bind(readRegister(w.io, s.address), LAMBDA rd :
    Bind(isValid(rd.result) /\ rd.result.value = s.value, LAMBDA ok :
        [s     |-> [s EXCEPT !.io = rd.io, !.readResult = rd.result,
                             !.writes = @ + 1,
                             !.attempts = IF ok THEN @ ELSE @ + 1],
         again |-> ~ok]))))

writeRegister(io, address, value) ==
    IF address > AddressMask
    THEN [io |-> io, ret |-> FALSE, writes |-> 0, attempts |-> 0,
          readResult |-> ReadResult(255, 255)]
    ELSE Bind(repeat_withExitCondition(3, "writeRegister",
                  [io |-> io, address |-> address, value |-> value,
                   readResult |-> ReadResult(255, 255),
                   writes |-> 0, attempts |-> 0]), LAMBDA s :
             [io |-> s.io, ret |-> FALSE, writes |-> s.writes,
              attempts |-> s.attempts, readResult |-> s.readResult])

----------------------------------------------------------------------------
(* SPIBus burst operations.  A buffer argument is [null, bytes].           *)

Buf(bytes) == [null |-> FALSE, bytes |-> bytes]
NullBuf    == [null |-> TRUE, bytes |-> <<>>]

writeBurstRegister(io, address, data, length) ==
    IF data.null \/ length = 0 \/ length > 64
    THEN [io |-> io, ret |-> FALSE]
    ELSE IF address # 3 /\ address # 63
    THEN [io |-> io, ret |-> FALSE]
    ELSE [io  |-> applyTransaction(io,
                      <<BitOr(address, writeBurstRegister_flag)>>
                          \o [i \in 1..length |-> data.bytes[i]]).io,
          ret |-> TRUE]

validateParameters(address, buf, length) ==
    IF length > 64 THEN FALSE
    ELSE IF BitAnd(address, AddressMask) > AddressMask THEN FALSE
    ELSE IF buf.null THEN FALSE
    ELSE TRUE

performBurstRead(io, address, length) ==
    Bind(applyTransaction(io,
             <<BitOr(address, readBurstRegister_flag)>>
                 \o [i \in 1..length |-> DummyByte]), LAMBDA t :
        [io   |-> t.io,
         ret  |-> ~(\A i \in 1..length : t.in[i + 1] = 255),   \* !allFFs
         data |-> [i \in 1..length |-> t.in[i + 1]]])

\* the retry lambda of readBurstRegister
readBurstRegister_attempt(s) ==
    Bind(performBurstRead(s.io, s.address, s.length), LAMBDA r :
        [s     |-> [s EXCEPT !.io = r.io, !.data = r.data,
                             !.reads = @ + 1, !.good = r.ret,
                             !.attempts = IF r.ret THEN @ ELSE @ + 1],
         again |-> ~r.ret])

readBurstRegister(io, address, buf, length) ==
    IF ~validateParameters(address, buf, length)
    THEN [io |-> io, ret |-> TRUE, data |-> buf.bytes, reads |-> 0, good |-> FALSE]
    ELSE Bind(repeat_withExitCondition(3, "readBurstRegister",
                  [io |-> io, address |-> address, length |-> length,
                   data |-> buf.bytes, reads |-> 0, good |-> FALSE,
                   attempts |-> 0]), LAMBDA s :
             [io |-> s.io, ret |-> FALSE, data |-> s.data, reads |-> s.reads,
              good |-> s.good])

----------------------------------------------------------------------------
(* applyRegisterConfig_CC1101 with the write / read lambdas of begin()     *)

\* the lambda writeAndVerifyRegister, for one RegisterSettings entry
\* <<reg, reg_value, verify>>; matched tells whether the last read-back of
\* writeRegister was accepted
writeAndVerifyRegister(io, regSettings) ==
    Bind(writeRegister(io, regSettings[1], regSettings[2]), LAMBDA w :
        IF ~w.ret
        THEN [io |-> w.io, ret |-> FALSE, matched |-> w.attempts < w.writes,
              readback |-> -1]
        ELSE IF regSettings[3]
        THEN Bind(readRegister(w.io, regSettings[1]), LAMBDA rd :
                 [io |-> rd.io, ret |-> (rd.result.value = regSettings[2]),
                  matched |-> w.attempts < w.writes,
                  readback |-> rd.result.value])
        ELSE [io |-> w.io, ret |-> TRUE, matched |-> w.attempts < w.writes,
              readback |-> -1])

\* what one call of the lambda leaves in `done`: its result and the part of
\* the log it produced
Visited(io, r) ==
    [io   |-> r.io,
     done |-> <<[ok |-> r.ret, matched |-> r.matched, readback |-> r.readback,
                 from |-> Len(io.log) + 1, to |-> Len(r.io.log)]>>]

\* b after a
Then(a, b) == [io |-> b.io, done |-> a.done \o b.done]

\* for_each_element(config, N, func): the entries lo..hi of config in index
\* order, the first half of the range and then the second
RECURSIVE for_each_element(_, _, _, _)
for_each_element(io, config, lo, hi) ==
    CASE lo > hi -> [io |-> io, done |-> <<>>]
      [] lo = hi -> Visited(io, writeAndVerifyRegister(io, config[lo]))
      [] lo < hi -> Bind(for_each_element(io, config, lo, (lo + hi) \div 2), LAMBDA a :
                        Then(a, for_each_element(a.io, config, (lo + hi) \div 2 + 1, hi)))

applyRegisterConfig_CC1101(io, config) ==
    Bind(for_each_element(io, config, 1, Len(config)), LAMBDA r :
        [io |-> r.io, ret |-> TRUE, done |-> r.done])

----------------------------------------------------------------------------
(* SC41344 encoder and frame streamer                                      *)

SHORT_HIGH_US == 300
SHORT_LOW_US  == 300
LONG_HIGH_US  == 2200
LONG_LOW_US   == 2200
PREAMBLE_LOW_DURATION_US == 10000
DIGIT_PERIOD_US == 5000
FRAME_SILENCE_BETWEEN_WORDS == 3 * DIGIT_PERIOD_US
FRAME_REPEATS == 3

Pin(level)  == Ev("pin", level, 0)
DelayUs(us) == Ev("delayUs", us, 0)
Symbols == {"sendOne", "sendZero", "sendOpen", "sendSilence", "sendPreamble", "setIdle"}

sendOne ==
    <<Ev("sendOne", 0, 0)>>
    \o <<Pin(1), DelayUs(LONG_HIGH_US), Pin(0), DelayUs(SHORT_LOW_US)>>
    \o <<Pin(1), DelayUs(LONG_HIGH_US), Pin(0), DelayUs(SHORT_LOW_US)>>

\* sendZero with short gaps between its short pulses
sendZero_shortLow ==
    <<Ev("sendZero", 0, 0)>>
    \o <<Pin(1), DelayUs(SHORT_HIGH_US), Pin(0), DelayUs(SHORT_LOW_US)>>
    \o <<Pin(1), DelayUs(SHORT_HIGH_US), Pin(0), DelayUs(SHORT_LOW_US)>>

sendZero ==
    <<Ev("sendZero", 0, 0)>>
    \o <<Pin(1), DelayUs(SHORT_HIGH_US), Pin(0), DelayUs(LONG_LOW_US)>>
    \o <<Pin(1), DelayUs(SHORT_HIGH_US), Pin(0), DelayUs(LONG_LOW_US)>>

\* sendOpen emitting the two long pulses of a '1'
sendOpen_twoLong ==
    <<Ev("sendOpen", 0, 0),
      Pin(1), DelayUs(LONG_HIGH_US), Pin(0), DelayUs(SHORT_LOW_US),
      Pin(1), DelayUs(LONG_HIGH_US), Pin(0), DelayUs(SHORT_LOW_US)>>

sendOpen ==
    <<Ev("sendOpen", 0, 0),
      Pin(1), DelayUs(LONG_HIGH_US), Pin(0), DelayUs(SHORT_LOW_US),
      Pin(1), DelayUs(SHORT_HIGH_US), Pin(0), DelayUs(LONG_LOW_US)>>

sendSilence ==
    <<Ev("sendSilence", 0, 0), Pin(0), DelayUs(FRAME_SILENCE_BETWEEN_WORDS), Pin(1)>>

sendPreamble ==
    <<Ev("sendPreamble", 0, 0), Pin(0), DelayUs(PREAMBLE_LOW_DURATION_US)>>

setIdle == <<Ev("setIdle", 0, 0), Pin(1)>>

\* sendBit with the two symbols exchanged
sendBit_inverted(bit) == IF bit = 1 THEN sendZero ELSE sendOne

sendBit(bit) == IF bit = 1 THEN sendOne ELSE sendZero

RECURSIVE sendBits(_, _)
sendBits(bits, i) ==
    IF i > Len(bits) THEN <<>> ELSE sendBit(bits[i]) \o sendBits(bits, i + 1)

sendFrame(bits) == sendBits(bits, 1) \o sendOpen

RECURSIVE repeatSilenceFrame(_, _)
repeatSilenceFrame(n, bits) ==
    IF n > 0 THEN sendSilence \o sendFrame(bits) \o repeatSilenceFrame(n - 1, bits)
    ELSE <<>>

streamFrame(io, bits) ==
    [io EXCEPT !.log = @ \o sendPreamble \o sendFrame(bits)
                         \o repeatSilenceFrame(FRAME_REPEATS, bits) \o setIdle]

----------------------------------------------------------------------------
(* Transceiver                                                             *)

\* the retry lambda of strobeCommand
\* the retry lambda of strobeCommand never asking for a retry
strobeCommand_attempt_once(s) ==
    Bind(transferByte(selectDevice(s.io), s.command), LAMBDA t :
    Bind(readRegister(deselectDevice(t.io), PARTNUM), LAMBDA rd :
        [s     |-> [s EXCEPT !.io = rd.io, !.sends = @ + 1,
                             !.success = (rd.result.value = 0)],
         again |-> FALSE]))

strobeCommand_attempt(s) ==
    Bind(transferByte(selectDevice(s.io), s.command), LAMBDA t :
    Bind(readRegister(deselectDevice(t.io), PARTNUM), LAMBDA rd :
        [s     |-> [s EXCEPT !.io = rd.io, !.sends = @ + 1,
                             !.success = (rd.result.value = 0)],
         again |-> rd.result.value # 0]))

strobeCommand(io, command) ==
    Bind(repeat_withExitCondition(3, "strobeCommand",
             [io |-> io, command |-> command, success |-> FALSE, sends |-> 0]),
         LAMBDA s : [io |-> s.io, ret |-> s.success, sends |-> s.sends])

verifyChipId(io) ==
    Bind(readRegister(io, 48), LAMBDA rd :
        [io |-> rd.io, ret |-> (rd.result.value = 0)])

\* the CSn pulse of the reset sequence, up to the wait for MISO low
reset_pulse(io) ==
    [selectDevice(
        [deselectDevice(
            [selectDevice(io) EXCEPT !.log = Append(@, DelayUs(10))])
         EXCEPT !.log = Append(@, DelayUs(40))])
     EXCEPT !.log = Append(@, Ev("pollMISO", 0, 0))]

\* the lambda of reset(): it has no return statement on the path where
\* verifyChipId() fails, so what repeat_withExitCondition sees there is
\* the indeterminate value s.ub[k] of the k-th attempt
reset_attempt(s) ==
    Bind(strobeCommand(reset_pulse(s.io), SRES), LAMBDA st :
        IF ~st.ret
        THEN [s |-> [s EXCEPT !.io = st.io, !.attempt = @ + 1], again |-> TRUE]
        ELSE Bind(verifyChipId([st.io EXCEPT !.log = @ \o <<Ev("pollMISO", 0, 0),
                                                            Ev("delayMs", 10, 0)>>]),
                  LAMBDA v :
                 [s     |-> [s EXCEPT !.io = v.io, !.attempt = @ + 1,
                                      !.verified = v.ret],
                  again |-> IF v.ret THEN FALSE ELSE s.ub[s.attempt + 1]]))

reset(io, ub) ==
    Bind(repeat_withExitCondition(3, "reset",
             [io |-> io, ub |-> ub, attempt |-> 0, verified |-> FALSE]),
         LAMBDA s : [io |-> s.io, attempts |-> s.attempt, verified |-> s.verified])

configurePATable(io, powerLevelIndex) ==
    IF powerLevelIndex > 7 THEN [io |-> io, burst |-> FALSE]
    ELSE Bind(writeBurstRegister(io, PATABLE, Buf(paTable), 8), LAMBDA b :
         Bind(readRegister(b.io, FREND0), LAMBDA rd :
         Bind(BitOr(BitAnd(rd.result.value, BitNot8(7)),
                    BitAnd(powerLevelIndex, 7)), LAMBDA frend0 :
             [io    |-> writeRegister(rd.io, Value_FREND0, frend0).io,
              burst |-> b.ret])))

\* the first retry lambda of enableTransmitMode (SIDLE)
enableTransmitMode_idle(s) ==
    Bind(strobeCommand(s.io, SIDLE), LAMBDA st :
        IF ~st.ret THEN [s |-> [s EXCEPT !.io = st.io], again |-> TRUE]
        ELSE [s |-> [s EXCEPT !.io = [st.io EXCEPT !.log = Append(@, DelayUs(10))],
                              !.success = TRUE],
              again |-> FALSE])

\* the second retry lambda of enableTransmitMode (STX)
enableTransmitMode_tx(s) ==
    Bind(strobeCommand(s.io, STX), LAMBDA st :
        IF ~st.ret
        THEN [s |-> [s EXCEPT !.io = st.io, !.stx = @ + 1], again |-> TRUE]
        ELSE Bind(readRegister(st.io, MARCSTATE), LAMBDA rd :
                 IF rd.result.value # 19
                 THEN [s |-> [s EXCEPT !.io = rd.io, !.stx = @ + 1], again |-> TRUE]
                 ELSE [s |-> [s EXCEPT !.io = rd.io, !.stx = @ + 1, !.success = TRUE],
                       again |-> FALSE]))

\* returns the final value of the local `success` (TX mode confirmed) and
\* whether the idle command was given up
enableTransmitMode(io) ==
    Bind(readRegister(io, MARCSTATE), LAMBDA rd :
    Bind(IF rd.result.value # 1
         THEN repeat_withExitCondition(3, "enableTransmitMode_idle",
                  [io |-> rd.io, success |-> FALSE])
         ELSE [io |-> rd.io, success |-> TRUE], LAMBDA s1 :
        IF ~s1.success
        THEN [io |-> s1.io, success |-> FALSE, idleFailed |-> TRUE, stx |-> 0]
        ELSE Bind(repeat_withExitCondition(3, "enableTransmitMode_tx",
                      [io |-> s1.io, success |-> FALSE, stx |-> 0]), LAMBDA s2 :
                 [io |-> s2.io, success |-> s2.success, idleFailed |-> FALSE,
                  stx |-> s2.stx])))

transmitFrame(io, code_DataBits) ==
    Bind(enableTransmitMode(io), LAMBDA e :
    Bind(streamFrame(e.io, code_DataBits), LAMBDA f :
    Bind(strobeCommand(f, SIDLE), LAMBDA st :
        [io |-> st.io, ret |-> st.ret, txConfirmed |-> e.success,
         idleFailed |-> e.idleFailed, streamFrom |-> Len(e.io.log) + 1,
         streamTo |-> Len(f.log)])))

\* begin_verify accepting the chip on PARTNUM alone
begin_verify_partnumOnly(s) ==
    Bind(readRegister(s.io, PARTNUM), LAMBDA r1 :
        IF r1.result.value # 0
        THEN [s |-> [s EXCEPT !.io = r1.io,
                       !.checks = Append(@, <<r1.result.value, -1>>)],
              again |-> TRUE]
        ELSE [s |-> [s EXCEPT !.io = r1.io, !.success = TRUE,
                       !.checks = Append(@, <<r1.result.value, -1>>)],
              again |-> FALSE])

\* the verification lambda of begin() (PARTNUM and VERSION)
begin_verify(s) ==
    Bind(readRegister(s.io, PARTNUM), LAMBDA r1 :
        IF r1.result.value # 0
        THEN [s |-> [s EXCEPT !.io = r1.io,
                       !.checks = Append(@, <<r1.result.value, -1>>)],
              again |-> TRUE]
        ELSE Bind(readRegister(r1.io, VERSION), LAMBDA r2 :
                 IF r2.result.value # 20
                 THEN [s |-> [s EXCEPT !.io = r2.io,
                                !.checks = Append(@, <<r1.result.value, r2.result.value>>)],
                       again |-> TRUE]
                 ELSE [s |-> [s EXCEPT !.io = r2.io, !.success = TRUE,
                                !.checks = Append(@, <<r1.result.value, r2.result.value>>)],
                       again |-> FALSE]))

PATABLE_HIGH_INDEX == 7

begin(io, ub) ==
    Bind(reset(deselectDevice(io), ub), LAMBDA rs :
    Bind(applyRegisterConfig_CC1101(rs.io, setting_Regs), LAMBDA cfg :
    Bind(configurePATable(cfg.io, PATABLE_HIGH_INDEX), LAMBDA pa :
    Bind(repeat_withExitCondition(3, "begin_verify",
             [io |-> pa.io, success |-> FALSE, checks |-> <<>>]), LAMBDA s :
        [io |-> s.io, ret |-> s.success, checks |-> s.checks,
         resetVerified |-> rs.verified, configRet |-> cfg.ret, done |-> cfg.done,
         configFrom |-> Len(rs.io.log) + 1, configTo |-> Len(cfg.io.log),
         verifyFrom |-> Len(pa.io.log) + 1]))))

F_XOSC == 26000000

\* the product kept in 32 bits: (uint32_t)(x * 2^16) / d
MulDiv65536_uint32(x, d) ==
    LET e == d \div 128
        y == x % 65536
    IN  (y \div e) * 512 + ((y % e) * 512) \div e

\* (uint64_t)x * 2^16 / d for d a multiple of 128, by long division so that
\* no intermediate exceeds 31 bits: 2^16 / d = 512 / (d / 128)
MulDiv65536(x, d) ==
    LET e == d \div 128
    IN  (x \div e) * 512 + ((x % e) * 512) \div e

\* setFrequency writing the low byte first
setFrequency_lowFirst(io, frequencyHz) ==
    IF frequencyHz < 300000000 \/ frequencyHz > 928000000 THEN io
    ELSE Bind(MulDiv65536(frequencyHz, F_XOSC), LAMBDA freq :
         Bind(writeRegister(io, FREQ2, BitAnd(freq, 255)), LAMBDA w2 :
         Bind(writeRegister(w2.io, FREQ1, BitAnd(freq \div 256, 255)), LAMBDA w1 :
             writeRegister(w1.io, FREQ0, BitAnd(freq \div 65536, 255)).io)))

\* setFrequency with the range check excluding its bounds
setFrequency_exclusive(io, frequencyHz) ==
    IF frequencyHz <= 300000000 \/ frequencyHz >= 928000000 THEN io
    ELSE Bind(MulDiv65536(frequencyHz, F_XOSC), LAMBDA freq :
         Bind(writeRegister(io, FREQ2, BitAnd(freq \div 65536, 255)), LAMBDA w2 :
         Bind(writeRegister(w2.io, FREQ1, BitAnd(freq \div 256, 255)), LAMBDA w1 :
             writeRegister(w1.io, FREQ0, BitAnd(freq, 255)).io)))

setFrequency(io, frequencyHz) ==
    IF frequencyHz < 300000000 \/ frequencyHz > 928000000 THEN io
    ELSE Bind(MulDiv65536(frequencyHz, F_XOSC), LAMBDA freq :
         Bind(writeRegister(io, FREQ2, BitAnd(freq \div 65536, 255)), LAMBDA w2 :
         Bind(writeRegister(w2.io, FREQ1, BitAnd(freq \div 256, 255)), LAMBDA w1 :
             writeRegister(w1.io, FREQ0, BitAnd(freq, 255)).io)))

sleep(io) == strobeCommand(io, SPWD).io

setPowerLevel(io, level) ==
    configurePATable(io, IF level > 7 THEN 7 ELSE level)

\* bitFlags
ChipState == 15
FIFObytes == 15

decodeStatus(readResult) ==
    [fifoBytes |-> BitAnd(readResult.status, FIFObytes),
     chipState |-> BitAnd(readResult.status \div 16, ChipState)]

\* the switch of chipStateToString on (chipState >> 4) & 0x0F
chipStateToString(chipState) ==
    Bind(BitAnd(chipState \div 16, 15), LAMBDA sel :
        CASE sel = 0 -> "IDLE"
          [] sel = 1 -> "RX"
          [] sel = 2 -> "TX"
          [] sel = 3 -> "FSTXON"
          [] sel = 4 -> "CALIBRATING"
          [] sel = 5 -> "SETTLING"
          [] sel = 6 -> "RX FIFO OVERFLOW"
          [] sel = 7 -> "TX FIFO UNDERFLOW"
          [] OTHER   -> "UNKNOWN")

\* String(v, HEX) and String(v) of a value below 16
HexString(v) == <<"0", "1", "2", "3", "4", "5", "6", "7",
                  "8", "9", "a", "b", "c", "d", "e", "f">>[v + 1]
DecString(v) == <<"0", "1", "2", "3", "4", "5", "6", "7",
                  "8", "9", "10", "11", "12", "13", "14", "15">>[v + 1]

\* StatusInfo::toString: the pieces of the message, in order
StatusInfo_toString(info) ==
    <<"CHIP STATE: ", chipStateToString(info.chipState),
      " (0x", HexString(info.chipState), "), FIFO Bytes: ", DecString(info.fifoBytes)>>

----------------------------------------------------------------------------
(* avr_algorithms                                                          *)

\* the lambdas passed to repeat_withExitCondition, by call site
operation(f, s) ==
    CASE f = "readRegister"            -> readRegister_attempt(s)
      [] f = "writeRegister"           -> writeRegister_attempt(s)
      [] f = "readBurstRegister"       -> readBurstRegister_attempt(s)
      [] f = "strobeCommand"           -> strobeCommand_attempt(s)
      [] f = "reset"                   -> reset_attempt(s)
      [] f = "enableTransmitMode_idle" -> enableTransmitMode_idle(s)
      [] f = "enableTransmitMode_tx"   -> enableTransmitMode_tx(s)
      [] f = "begin_verify"            -> begin_verify(s)

\* repeat_withExitCondition testing its counter after the call
repeat_withExitCondition_doWhile(n, f, s) ==
    IF n >= 0
    THEN CHOOSE y \in {IF ~r.again THEN r.s
                       ELSE repeat_withExitCondition(n - 1, f, r.s)
                           : r \in {operation(f, s)}} : TRUE
    ELSE s

\* at most n calls of the lambda f, stopping after the first that returns
\* false; s is what the lambda captures by reference.  The outcome r of a
\* call is bound as in Bind, written out here.
repeat_withExitCondition(n, f, s) ==
    IF n > 0
    THEN CHOOSE y \in {IF ~r.again THEN r.s
                       ELSE repeat_withExitCondition(n - 1, f, r.s)
                           : r \in {operation(f, s)}} : TRUE
    ELSE s

----------------------------------------------------------------------------
(* Bounds and input sets                                                   *)

MaxScript == 2

Scripts == UNION {[1..n -> Faults] : n \in 0..MaxScript}
Lines   == [quiet : {0}, script : Scripts, tail : Faults]
HonestLine == [quiet |-> 0, script |-> <<>>, tail |-> "ok"]

Chip(partnum, version, ro) ==
    [regs |-> PowerOnRegs(partnum, version), pa |-> [i \in 1..8 |-> 0], ro |-> ro]

Addrs  == {IOCFG0, PKTLEN, 64, 200}
Values == {46, 255}

StartIO == [chip |-> chip, csn |-> csn, log |-> <<>>,
            quiet |-> line.quiet, script |-> line.script, tail |-> line.tail]

\* the effect of a call that ended with machine io
Called(name, args, io, result) ==
    /\ call' = [name |-> name, args |-> args, line |-> line]
    /\ chip' = io.chip
    /\ line' = [quiet |-> io.quiet, script |-> io.script, tail |-> io.tail]
    /\ csn'  = io.csn
    /\ log'  = io.log
    /\ ret'  = result
    /\ UNCHANGED mcu

\* the microcontroller after setup(), at the top of loop()
McuAfterSetup ==
    [interrupts |-> TRUE, watchdog |-> TRUE, edge |-> FALSE, pc |-> "loop",
     todo |-> {}, cb |-> 0]

NoCall ==
    /\ csn = 1
    /\ call = [name |-> "none", args |-> <<>>, line |-> line]
    /\ ret = [ret |-> FALSE]
    /\ log = <<>>

BUFFER_SIZE   == 16
MAX_CALLBACKS == 4
THRESHOLD_DEBOUNCE == 60
SAMPLE_RATE_DEBOUNCE == 1000

\* the debouncer of a controller that is only running the radio: as
\* constructed, the button released
DebounceIdle ==
    /\ debouncing = FALSE
    /\ stableState = FALSE
    /\ pressedDetected = FALSE
    /\ buffer = [i \in 0..(BUFFER_SIZE - 1) |-> FALSE]
    /\ head = 0
    /\ thresholdPercentage = 90
    /\ callbacks = <<>>
    /\ elapsed = FALSE
    /\ delayTime = SAMPLE_RATE_DEBOUNCE
    /\ pin = TRUE
    /\ pinChanges = 0
    /\ session = [phase |-> "none", presses |-> 0]
    /\ mcu = McuAfterSetup

----------------------------------------------------------------------------
(* SPIBus: the register protocol against a chip and a line                 *)

InitBus ==
    /\ chip \in {Chip(0, 20, ro) : ro \in {{}, {PKTLEN}}}
    /\ line \in Lines
    /\ NoCall
    /\ DebounceIdle

WriteRegister ==
    \E a \in Addrs, v \in Values :
        \E r \in {writeRegister(StartIO, a, v)} :
            /\ Called("writeRegister", <<a, v>>, r.io,
                      [ret |-> r.ret, writes |-> r.writes, attempts |-> r.attempts,
                       readResult |-> r.readResult])
            /\ UNCHANGED debounceVars

ReadRegister ==
    \E a \in Addrs :
        \E r \in {readRegister(StartIO, a)} :
            /\ Called("readRegister", <<a>>, r.io,
                      [ret |-> r.result, attempts |-> r.attempts,
                       valid |-> isValid(r.result)])
            /\ UNCHANGED debounceVars

\* readRegister of the address that the last call wrote; args keeps the
\* written value and the line the write started on
ReadBack ==
    /\ call.name = "writeRegister"
    /\ \E r \in {readRegister(StartIO, call.args[1])} :
          /\ Called("readBack", <<call.args[1], call.args[2], call.line>>, r.io,
                    [ret |-> r.result, attempts |-> r.attempts,
                     valid |-> isValid(r.result)])
          /\ UNCHANGED debounceVars

BurstAddrs == {FIFOTHR, PATABLE, 63, 200}
BurstLens  == {0, 2, 8, 65}
BurstData  == [i \in 1..65 |-> IF i % 2 = 1 THEN 255 ELSE 7]

WriteBurst ==
    \E a \in BurstAddrs, n \in BurstLens, null \in BOOLEAN :
        \E r \in {writeBurstRegister(StartIO, a,
                       IF null THEN NullBuf ELSE Buf(BurstData), n)} :
            /\ Called("writeBurstRegister", <<a, n, null>>, r.io, [ret |-> r.ret])
            /\ UNCHANGED debounceVars

ReadBurst ==
    \E a \in BurstAddrs, n \in BurstLens, null \in BOOLEAN :
        \E r \in {readBurstRegister(StartIO, a,
                       IF null THEN NullBuf ELSE Buf([i \in 1..n |-> 0]), n)} :
            /\ Called("readBurstRegister", <<a, n, null>>, r.io,
                      [ret |-> r.ret, data |-> r.data, reads |-> r.reads,
                       good |-> r.good])
            /\ UNCHANGED debounceVars

NextBus ==
    \/ WriteRegister
    \/ ReadRegister
    \/ ReadBack
    \/ WriteBurst
    \/ ReadBurst

SpecBus == InitBus /\ [][NextBus]_vars

----------------------------------------------------------------------------
(* The configuration applier alone                                         *)

ConfigEntries == {<<IOCFG0, 46, TRUE>>, <<FIFOTHR, 7, TRUE>>,
                  <<PKTLEN, 255, FALSE>>, <<FREND0, 17, FALSE>>}
Configs == {c \in [1..3 -> ConfigEntries] : \A i, j \in 1..3 : c[i] = c[j] => i = j}

InitConfig ==
    /\ chip \in {Chip(0, 20, ro) : ro \in {{}, {IOCFG0}, {FIFOTHR}}}
    /\ line \in Lines
    /\ NoCall
    /\ DebounceIdle

ApplyConfig ==
    \E config \in Configs :
        \E r \in {applyRegisterConfig_CC1101(StartIO, config)} :
            /\ Called("applyRegisterConfig", config, r.io,
                      [ret |-> r.ret, done |-> r.done])
            /\ UNCHANGED debounceVars

NextConfig == ApplyConfig

SpecConfig == InitConfig /\ [][NextConfig]_vars

----------------------------------------------------------------------------
(* begin(), called once from setup()                                       *)

MaxBeginScript == 1

\* the number of transactions begin() makes before its final verification,
\* on a clean line with a genuine chip
QuietBegin ==
    Bind(begin([chip |-> Chip(0, 20, {}), csn |-> 1, log |-> <<>>,
                quiet |-> 0, script |-> <<>>, tail |-> "ok"],
               [k \in 1..3 |-> FALSE]), LAMBDA r :
        Cardinality({i \in 1..(r.verifyFrom - 2) :
                        /\ r.io.log[i].e = "csn" /\ r.io.log[i].a = 0
                        /\ r.io.log[i + 1].e = "xfer"}))

InitBegin ==
    /\ chip \in {Chip(p, v, ro) : p \in {0, 128}, v \in {20, 4},
                                  ro \in {{}, {FIFOTHR}}}
    /\ line \in [quiet : {0, QuietBegin},
                 script : UNION {[1..n -> Faults] : n \in 0..MaxBeginScript},
                 tail : Faults]
    /\ NoCall
    /\ DebounceIdle

Begin ==
    /\ call.name = "none"
    /\ \E ub \in [1..3 -> BOOLEAN] :
        \E r \in {begin(StartIO, ub)} :
            /\ Called("begin", ub, r.io,
                      [ret |-> r.ret, checks |-> r.checks,
                       resetVerified |-> r.resetVerified,
                       configRet |-> r.configRet, done |-> r.done,
                       configFrom |-> r.configFrom, configTo |-> r.configTo,
                       verifyFrom |-> r.verifyFrom])
            /\ UNCHANGED debounceVars

NextBegin == Begin

SpecBegin == InitBegin /\ [][NextBegin]_vars

----------------------------------------------------------------------------
(* The controller after setup                                              *)

Frames == {<<0, 0, 0, 0, 0, 0, 0, 0>>, <<1, 0, 1, 1, 0, 0, 1, 0>>, <<1, 0>>}
Levels == {0, 4, 7, 9}
Frequencies == {0, 299999999, 300000000, 300000001, 315000000, 433920000,
                599999999, 868000000, 927999999, 928000000, 928000001}

InitRadio ==
    /\ chip \in {Chip(p, 20, ro) : p \in {0, 128}, ro \in {{}, {MARCSTATE}}}
    /\ line \in Lines
    /\ NoCall
    /\ DebounceIdle

TransmitFrame ==
    \E bits \in Frames :
        \E r \in {transmitFrame(StartIO, bits)} :
            /\ Called("transmitFrame", bits, r.io,
                      [ret |-> r.ret, txConfirmed |-> r.txConfirmed,
                       idleFailed |-> r.idleFailed,
                       streamFrom |-> r.streamFrom, streamTo |-> r.streamTo])
            /\ UNCHANGED debounceVars

SetPowerLevel ==
    \E level \in Levels :
        \E r \in {setPowerLevel(StartIO, level)} :
            /\ Called("setPowerLevel", <<level>>, r.io, [ret |-> r.burst])
            /\ UNCHANGED debounceVars

SetFrequency ==
    \E hz \in Frequencies :
        \E io \in {setFrequency(StartIO, hz)} :
            /\ Called("setFrequency", <<hz>>, io, [ret |-> FALSE])
            /\ UNCHANGED debounceVars

Commands == {SIDLE, STX, SPWD}

StrobeCommand ==
    \E command \in Commands :
        \E r \in {strobeCommand(StartIO, command)} :
            /\ Called("strobeCommand", <<command>>, r.io,
                      [ret |-> r.ret, sends |-> r.sends])
            /\ UNCHANGED debounceVars

Sleep ==
    \E io \in {sleep(StartIO)} :
        /\ Called("sleep", <<>>, io, [ret |-> FALSE])
        /\ UNCHANGED debounceVars

NextRadio ==
    \/ TransmitFrame
    \/ SetPowerLevel
    \/ SetFrequency
    \/ StrobeCommand
    \/ Sleep

SpecRadio == InitRadio /\ [][NextRadio]_vars

----------------------------------------------------------------------------
(* Every operation that exchanges bytes with the chip, on one bus          *)

InitSelect ==
    /\ chip = Chip(0, 20, {})
    /\ line \in Lines
    /\ NoCall
    /\ DebounceIdle

NextSelect ==
    \/ WriteRegister
    \/ ReadRegister
    \/ ReadBack
    \/ WriteBurst
    \/ ReadBurst
    \/ StrobeCommand

SpecSelect == InitSelect /\ [][NextSelect]_vars

----------------------------------------------------------------------------
(* Every operation with a retry loop, on a line that may fail at any byte  *)

\* the verification that ends begin(), after the configuration
BeginVerify ==
    \E s \in {repeat_withExitCondition(3, "begin_verify",
                  [io |-> StartIO, success |-> FALSE, checks |-> <<>>])} :
        /\ Called("beginVerify", <<>>, s.io, [ret |-> s.success, checks |-> s.checks])
        /\ UNCHANGED debounceVars

NextRetry ==
    \/ ReadRegister
    \/ WriteRegister
    \/ ReadBurst
    \/ StrobeCommand
    \/ TransmitFrame
    \/ BeginVerify

SpecRetry == InitSelect /\ [][NextRetry]_vars

----------------------------------------------------------------------------
(* CircularDebounceBuffer: d is the object,                                *)
(*   [debouncing, stableState, pressedDetected, buffer, head,              *)
(*    thresholdPercentage, callbacks, isActiveLow, elapsed, delayTime]     *)

\* clearBuffer leaving the cursor where it is
clearBuffer_keepHead(d) ==
    [d EXCEPT !.buffer = [i \in 0..(BUFFER_SIZE - 1) |-> FALSE]]

clearBuffer(d) ==
    [d EXCEPT !.buffer = [i \in 0..(BUFFER_SIZE - 1) |-> FALSE], !.head = 0]

CircularDebounceBuffer(isActiveLow, delayBetweenUs, timerElapsed) ==
    clearBuffer([debouncing |-> FALSE, stableState |-> FALSE,
                 pressedDetected |-> FALSE, buffer |-> <<>>, head |-> 0,
                 thresholdPercentage |-> 90, callbacks |-> <<>>,
                 isActiveLow |-> isActiveLow, elapsed |-> timerElapsed,
                 delayTime |-> delayBetweenUs])

setThreshold(d, percentage) ==
    IF percentage <= 100 THEN [d EXCEPT !.thresholdPercentage = percentage] ELSE d

\* Delay::updateDelayTime through setSampleIntervalUs
setSampleIntervalUs(d, newDelayUs) == [d EXCEPT !.delayTime = newDelayUs]

\* reset() keeping the registered callbacks
CircularDebounceBuffer_reset_keepCallbacks(d) ==
    [clearBuffer(d) EXCEPT !.stableState = FALSE, !.pressedDetected = FALSE,
                           !.debouncing = FALSE]

\* reset() leaving the stable state as it is
CircularDebounceBuffer_reset_keepStable(d) ==
    [clearBuffer(d) EXCEPT !.pressedDetected = FALSE,
                           !.debouncing = FALSE, !.callbacks = <<>>]

\* CircularDebounceBuffer::reset; _callbackCounter = 0 leaves no callback
\* registered
CircularDebounceBuffer_reset(d) ==
    [clearBuffer(d) EXCEPT !.stableState = FALSE, !.pressedDetected = FALSE,
                           !.debouncing = FALSE, !.callbacks = <<>>]

\* a callback is a function id, 0 the null pointer
addCallback(d, cb) ==
    IF Len(d.callbacks) < MAX_CALLBACKS
    THEN [d EXCEPT !.callbacks = Append(@, cb)]
    ELSE d

\* Delay::restartTimer
restartTimer(d) == [d EXCEPT !.elapsed = FALSE]

\* Delay::isDelayTimeElapsed
isDelayTimeElapsed(d) ==
    IF d.elapsed THEN [d |-> restartTimer(d), ret |-> TRUE]
    ELSE [d |-> d, ret |-> FALSE]

\* startDebounce with its guard joined by "or"
startDebounce_or(d) ==
    IF ~d.debouncing \/ ~d.stableState
    THEN restartTimer(clearBuffer([d EXCEPT !.debouncing = TRUE,
                                            !.pressedDetected = FALSE]))
    ELSE d

\* startDebounce without its guard
startDebounce_always(d) ==
    restartTimer(clearBuffer([d EXCEPT !.debouncing = TRUE,
                                       !.pressedDetected = FALSE]))

startDebounce(d) ==
    IF ~d.debouncing /\ ~d.stableState
    THEN restartTimer(clearBuffer([d EXCEPT !.debouncing = TRUE,
                                            !.pressedDetected = FALSE]))
    ELSE d

TrueCount(buf) == Cardinality({i \in DOMAIN buf : buf[i]})

\* thresholdCount with the division rounded down
thresholdCount_floor(d) == ((BUFFER_SIZE * d.thresholdPercentage) \div 100) % 256

\* thresholdCount with the sum kept in 8 bits
thresholdCount_narrow(d) == (((BUFFER_SIZE * d.thresholdPercentage + 99) % 256) \div 100) % 256

\* thresholdCount rounded up by a whole slot
thresholdCount_plusOne(d) == ((BUFFER_SIZE * d.thresholdPercentage) \div 100 + 1) % 256

\* thresholdCount taking the percentage for a number of slots
thresholdCount_percent(d) == d.thresholdPercentage % 256

\* uint8_t thresholdCount of update()
thresholdCount(d) == ((BUFFER_SIZE * d.thresholdPercentage + 99) \div 100) % 256

\* the callbacks update() invokes when it fires, in order
Invoked(d) == SelectSeq(d.callbacks, LAMBDA cb : cb # 0)

\* update() with the pin at level raw; invoked lists the callbacks called
update(d, raw) ==
    IF ~d.debouncing
    THEN [d |-> d, sampled |-> FALSE, trueCount |-> -1, invoked |-> <<>>]
    ELSE LET t == isDelayTimeElapsed(d)
         IN  IF ~t.ret
             THEN [d |-> t.d, sampled |-> FALSE, trueCount |-> -1, invoked |-> <<>>]
             ELSE LET adjusted  == IF d.isActiveLow THEN ~raw ELSE raw
                      d1        == [t.d EXCEPT !.buffer[d.head] = adjusted,
                                               !.head = (d.head + 1) % BUFFER_SIZE]
                      trueCount == TrueCount(d1.buffer)
                  IN  IF ~d1.pressedDetected
                      THEN IF trueCount >= thresholdCount(d1)
                           THEN [d |-> [d1 EXCEPT !.stableState = TRUE,
                                                  !.pressedDetected = TRUE],
                                 sampled |-> TRUE, trueCount |-> trueCount,
                                 invoked |-> Invoked(d1)]
                           ELSE [d |-> d1, sampled |-> TRUE, trueCount |-> trueCount,
                                 invoked |-> <<>>]
                      ELSE IF trueCount <= BUFFER_SIZE - thresholdCount(d1)
                           THEN [d |-> [clearBuffer([d1 EXCEPT !.stableState = FALSE,
                                                               !.pressedDetected = FALSE])
                                           EXCEPT !.debouncing = FALSE],
                                 sampled |-> TRUE, trueCount |-> trueCount,
                                 invoked |-> <<>>]
                           ELSE [d |-> d1, sampled |-> TRUE, trueCount |-> trueCount,
                                 invoked |-> <<>>]

----------------------------------------------------------------------------
(* The status report of loop()                                             *)

StatusBytes == 0..255

\* the report of a read result: the decoded fields and the logged message
Report(readResult) ==
    Bind(decodeStatus(readResult), LAMBDA info :
        [status |-> readResult.status, info |-> info,
         text |-> StatusInfo_toString(info)])

\* loop() holds a read result to decode; the chip is idle between calls
InitStatus ==
    /\ chip \in {Chip(0, 20, {})}
    /\ line \in {l \in Lines : l.script = <<>>}
    /\ csn = 1
    /\ log = <<>>
    /\ \E st \in StatusBytes, v \in {1, 255} :
          /\ call = [name |-> "none", args |-> <<ReadResult(st, v)>>, line |-> line]
          /\ ret = [status |-> st, info |-> [fifoBytes |-> 0, chipState |-> 0],
                    text |-> <<>>]
    /\ DebounceIdle

\* decodeStatus and toString applied to the read result at hand
DecodeStatus ==
    /\ call.name = "none"
    /\ Called("decodeStatus", call.args,
              [StartIO EXCEPT !.log = <<>>], Report(call.args[1]))
    /\ UNCHANGED debounceVars

\* the periodic poll of loop(): read MARCSTATE, decode, log the message
StatusPoll ==
    \E r \in {readRegister(StartIO, MARCSTATE)} :
        /\ Called("statusPoll", <<r.result>>, r.io, Report(r.result))
        /\ UNCHANGED debounceVars

NextStatus ==
    \/ DecodeStatus
    \/ StatusPoll

SpecStatus == InitStatus /\ [][NextStatus]_vars

----------------------------------------------------------------------------
(* The debouncer in the firmware: setup() configures it, the FALLING-edge  *)
(* interrupt arms it, loop() runs update()                                 *)

MaxPinChanges == 5

\* the object held in the variables
Deb == [debouncing |-> debouncing, stableState |-> stableState,
        pressedDetected |-> pressedDetected, buffer |-> buffer, head |-> head,
        thresholdPercentage |-> thresholdPercentage, callbacks |-> callbacks,
        isActiveLow |-> TRUE, elapsed |-> elapsed, delayTime |-> delayTime]

SetDeb(d) ==
    /\ debouncing' = d.debouncing
    /\ stableState' = d.stableState
    /\ pressedDetected' = d.pressedDetected
    /\ buffer' = d.buffer
    /\ head' = d.head
    /\ thresholdPercentage' = d.thresholdPercentage
    /\ callbacks' = d.callbacks
    /\ elapsed' = d.elapsed
    /\ delayTime' = d.delayTime

\* a step of the debouncer leaves the radio alone
DebCalled(name, args, result) ==
    /\ call' = [name |-> name, args |-> args, line |-> line]
    /\ ret' = result
    /\ UNCHANGED <<chip, line, csn, log, mcu>>

\* callback lists setup() may register: onButtonPressed alone, or with a
\* second handler, or with a null pointer between them
CallbackLists == {<<1>>, <<1, 2>>, <<1, 0, 2>>}

RECURSIVE addCallbacks(_, _)
addCallbacks(d, cbs) ==
    IF cbs = <<>> THEN d ELSE addCallbacks(addCallback(d, Head(cbs)), Tail(cbs))

InitDebounce ==
    /\ chip = Chip(0, 20, {})
    /\ line = HonestLine
    /\ NoCall
    /\ \E cbs \in CallbackLists, e \in BOOLEAN :
          LET d == addCallbacks(setThreshold(CircularDebounceBuffer(TRUE, SAMPLE_RATE_DEBOUNCE, e),
                                             THRESHOLD_DEBOUNCE), cbs)
          IN  /\ debouncing = d.debouncing
              /\ stableState = d.stableState
              /\ pressedDetected = d.pressedDetected
              /\ buffer = d.buffer
              /\ head = d.head
              /\ thresholdPercentage = d.thresholdPercentage
              /\ callbacks = d.callbacks
              /\ elapsed = d.elapsed
              /\ delayTime = d.delayTime
    /\ pin = TRUE
    /\ pinChanges = 0
    /\ session = [phase |-> "none", presses |-> 0]
    /\ mcu = McuAfterSetup

\* the button contact closes: FALLING edge, rawISRbuttonPressed runs
Press ==
    /\ pin = TRUE
    /\ pinChanges < MaxPinChanges
    /\ pin' = FALSE
    /\ pinChanges' = pinChanges + 1
    /\ LET d == startDebounce(Deb)
           armed == d.debouncing /\ ~debouncing
       IN  /\ SetDeb(d)
           /\ session' = IF armed /\ session.phase = "released"
                         THEN [session EXCEPT !.phase = "rearmed"]
                         ELSE session
           /\ DebCalled("startDebounce", <<>>, [ret |-> FALSE, armed |-> armed])

\* the button contact opens
Release ==
    /\ pin = FALSE
    /\ pinChanges < MaxPinChanges
    /\ pin' = TRUE
    /\ pinChanges' = pinChanges + 1
    /\ DebCalled("none", <<>>, [ret |-> FALSE])
    /\ UNCHANGED <<debouncing, stableState, pressedDetected, buffer, head,
                   thresholdPercentage, callbacks, elapsed, delayTime, session>>

\* the sample interval passes
Tick ==
    /\ ~elapsed
    /\ elapsed' = TRUE
    /\ DebCalled("none", <<>>, [ret |-> FALSE])
    /\ UNCHANGED <<debouncing, stableState, pressedDetected, buffer, head,
                   thresholdPercentage, callbacks, delayTime, pin, pinChanges,
                   session>>

\* loop() calls update()
Update ==
    LET r == update(Deb, pin)
        released == debouncing /\ ~r.d.debouncing
    IN  /\ SetDeb(r.d)
        /\ session' = IF r.invoked # <<>>
                      THEN [phase |-> "fired", presses |-> session.presses + 1]
                      ELSE IF released /\ session.phase = "fired"
                      THEN [session EXCEPT !.phase = "released"]
                      ELSE session
        /\ DebCalled("update", <<pin>>,
                     [ret |-> FALSE, sampled |-> r.sampled, trueCount |-> r.trueCount,
                      invoked |-> r.invoked,
                      before |-> [debouncing |-> debouncing,
                                  stableState |-> stableState,
                                  pressedDetected |-> pressedDetected,
                                  phase |-> session.phase]])
        /\ UNCHANGED <<pin, pinChanges>>

NextDebounce ==
    \/ Press
    \/ Release
    \/ Tick
    \/ Update

SpecDebounce == InitDebounce /\ [][NextDebounce]_vars

----------------------------------------------------------------------------
(* The threshold of the debouncer over its whole configuration range       *)

Percentages == 0..255

InitThreshold ==
    /\ chip = Chip(0, 20, {})
    /\ line = HonestLine
    /\ NoCall
    /\ \E e \in BOOLEAN :
          LET d == CircularDebounceBuffer(TRUE, SAMPLE_RATE_DEBOUNCE, e)
          IN  /\ debouncing = d.debouncing
              /\ stableState = d.stableState
              /\ pressedDetected = d.pressedDetected
              /\ buffer = d.buffer
              /\ head = d.head
              /\ thresholdPercentage = d.thresholdPercentage
              /\ callbacks = d.callbacks
              /\ elapsed = d.elapsed
              /\ delayTime = d.delayTime
    /\ pin = TRUE
    /\ pinChanges = 0
    /\ session = [phase |-> "none", presses |-> 0]
    /\ mcu = McuAfterSetup

\* setup() or a later caller sets the threshold
SetThreshold ==
    \E percentage \in Percentages :
        /\ SetDeb(setThreshold(Deb, percentage))
        /\ DebCalled("setThreshold", <<percentage>>, [ret |-> FALSE])
        /\ UNCHANGED <<pin, pinChanges, session>>

\* the threshold update() computes from the configured percentage
ThresholdCount ==
    /\ DebCalled("thresholdCount", <<thresholdPercentage>>,
                 [ret |-> thresholdCount(Deb)])
    /\ UNCHANGED <<debouncing, stableState, pressedDetected, buffer, head,
                   thresholdPercentage, callbacks, elapsed, delayTime, pin,
                   pinChanges, session>>

NextThreshold ==
    \/ SetThreshold
    \/ ThresholdCount

SpecThreshold == InitThreshold /\ [][NextThreshold]_vars

----------------------------------------------------------------------------
(* The debounce engine as a library object: any caller, the thresholds at  *)
(* the ends of the range.  session.samples counts the samples taken since  *)
(* the session was armed, up to MaxSamples.                                *)

MaxSamples == 17

\* contact changes of the button in one run of the engine
MaxContactChanges == 3

EngineThresholds == {0, 100}
EngineIntervals  == {500, SAMPLE_RATE_DEBOUNCE}

InitEngine ==
    /\ chip = Chip(0, 20, {})
    /\ line = HonestLine
    /\ NoCall
    /\ \E percentage \in EngineThresholds, e \in BOOLEAN :
          LET d == addCallbacks(
                       setThreshold(CircularDebounceBuffer(TRUE, SAMPLE_RATE_DEBOUNCE, e),
                                    percentage), <<1, 0, 2>>)
          IN  /\ debouncing = d.debouncing
              /\ stableState = d.stableState
              /\ pressedDetected = d.pressedDetected
              /\ buffer = d.buffer
              /\ head = d.head
              /\ thresholdPercentage = d.thresholdPercentage
              /\ callbacks = d.callbacks
              /\ elapsed = d.elapsed
              /\ delayTime = d.delayTime
    /\ pin = TRUE
    /\ pinChanges = 0
    /\ session = [phase |-> "none", presses |-> 0, samples |-> 0]
    /\ mcu = McuAfterSetup

\* the button contact closes and the caller triggers the engine
EnginePress ==
    /\ pin = TRUE
    /\ pinChanges < MaxContactChanges
    /\ pin' = FALSE
    /\ pinChanges' = pinChanges + 1
    /\ \E d \in {startDebounce(Deb)} :
          /\ SetDeb(d)
          /\ session' = IF d.debouncing /\ ~debouncing
                        THEN [session EXCEPT !.phase = "armed", !.samples = 0]
                        ELSE session
          /\ DebCalled("startDebounce", <<>>,
                       [ret |-> FALSE, armed |-> d.debouncing /\ ~debouncing])

\* the button contact opens
EngineRelease ==
    /\ pin = FALSE
    /\ pinChanges < MaxContactChanges
    /\ pin' = TRUE
    /\ pinChanges' = pinChanges + 1
    /\ DebCalled("none", <<>>, [ret |-> FALSE])
    /\ UNCHANGED <<debouncing, stableState, pressedDetected, buffer, head,
                   thresholdPercentage, callbacks, elapsed, delayTime, session>>

\* the caller runs update()
EngineUpdate ==
    \E r \in {update(Deb, pin)} :
        /\ SetDeb(r.d)
        /\ session' =
              [phase   |-> IF r.d.pressedDetected /\ ~pressedDetected THEN "fired"
                           ELSE IF debouncing /\ ~r.d.debouncing THEN "released"
                           ELSE session.phase,
               presses |-> session.presses,
               samples |-> IF r.sampled /\ session.samples < MaxSamples
                           THEN session.samples + 1 ELSE session.samples]
        /\ DebCalled("update", <<pin>>,
                     [ret |-> FALSE, sampled |-> r.sampled, trueCount |-> r.trueCount,
                      invoked |-> r.invoked,
                      before |-> [debouncing |-> debouncing,
                                  stableState |-> stableState,
                                  pressedDetected |-> pressedDetected,
                                  phase |-> session.phase]])
        /\ UNCHANGED <<pin, pinChanges>>

\* the caller changes the sample interval
SetSampleIntervalUs ==
    \E newDelayUs \in EngineIntervals :
        /\ SetDeb(setSampleIntervalUs(Deb, newDelayUs))
        /\ DebCalled("setSampleIntervalUs", <<newDelayUs>>, [ret |-> FALSE])
        /\ UNCHANGED <<pin, pinChanges, session>>

\* the caller re-initializes the engine
EngineReset ==
    /\ SetDeb(CircularDebounceBuffer_reset(Deb))
    /\ session' = [session EXCEPT !.phase = "none", !.samples = 0]
    /\ DebCalled("reset", <<>>, [ret |-> FALSE,
                                  before |-> [debouncing |-> debouncing,
                                              stableState |-> stableState,
                                              pressedDetected |-> pressedDetected,
                                              callbacks |-> callbacks]])
    /\ UNCHANGED <<pin, pinChanges>>

NextEngine ==
    \/ EnginePress
    \/ EngineRelease
    \/ Tick
    \/ EngineUpdate
    \/ SetSampleIntervalUs
    \/ EngineReset

SpecEngine == InitEngine /\ [][NextEngine]_vars

----------------------------------------------------------------------------
(* One button, pressed and let go, at every threshold setThreshold accepts *)

\* contact changes of the button in one run
MaxHoldChanges == 2

HoldThresholds == 0..100

\* session: phase of the session, whether every sample since arming was
\* active, and the length (up to BUFFER_SIZE) and value of the current run
\* of equal samples
InitHold ==
    /\ chip = Chip(0, 20, {})
    /\ line = HonestLine
    /\ NoCall
    /\ \E percentage \in HoldThresholds :
          LET d == addCallback(
                       setThreshold(CircularDebounceBuffer(TRUE, SAMPLE_RATE_DEBOUNCE, FALSE),
                                    percentage), 1)
          IN  /\ debouncing = d.debouncing
              /\ stableState = d.stableState
              /\ pressedDetected = d.pressedDetected
              /\ buffer = d.buffer
              /\ head = d.head
              /\ thresholdPercentage = d.thresholdPercentage
              /\ callbacks = d.callbacks
              /\ elapsed = d.elapsed
              /\ delayTime = d.delayTime
    /\ pin = TRUE
    /\ pinChanges = 0
    /\ session = [phase |-> "none", held |-> FALSE, run |-> 0, active |-> FALSE]
    /\ mcu = McuAfterSetup

\* the contact closes: the falling edge triggers the engine
HoldPress ==
    /\ pin = TRUE
    /\ pinChanges < MaxHoldChanges
    /\ pin' = FALSE
    /\ pinChanges' = pinChanges + 1
    /\ \E d \in {startDebounce(Deb)} :
          /\ SetDeb(d)
          /\ session' = IF d.debouncing /\ ~debouncing
                        THEN [phase |-> "armed", held |-> TRUE, run |-> 0,
                              active |-> FALSE]
                        ELSE session
    /\ UNCHANGED <<chip, line, csn, log, call, ret, mcu>>

\* the contact opens
HoldRelease ==
    /\ pin = FALSE
    /\ pinChanges < MaxHoldChanges
    /\ pin' = TRUE
    /\ pinChanges' = pinChanges + 1
    /\ UNCHANGED <<debouncing, stableState, pressedDetected, buffer, head,
                   thresholdPercentage, callbacks, elapsed, delayTime, session,
                   chip, line, csn, log, call, ret, mcu>>

\* the sample interval passes
HoldTick ==
    /\ ~elapsed
    /\ elapsed' = TRUE
    /\ UNCHANGED <<debouncing, stableState, pressedDetected, buffer, head,
                   thresholdPercentage, callbacks, delayTime, pin, pinChanges,
                   session, chip, line, csn, log, call, ret, mcu>>

\* loop() calls update()
HoldUpdate ==
    \E r \in {update(Deb, pin)} :
        /\ SetDeb(r.d)
        /\ session' =
              IF ~r.sampled THEN session
              ELSE [phase  |-> IF r.d.pressedDetected /\ ~pressedDetected THEN "fired"
                               ELSE IF ~r.d.debouncing THEN "released"
                               ELSE session.phase,
                    held   |-> session.held /\ ~pin,
                    run    |-> IF session.run = 0 \/ session.active # ~pin THEN 1
                               ELSE IF session.run < BUFFER_SIZE THEN session.run + 1
                               ELSE session.run,
                    active |-> ~pin]
        /\ DebCalled("update", <<pin>>, [ret |-> FALSE, invoked |-> r.invoked])
        /\ UNCHANGED <<pin, pinChanges>>

NextHold ==
    \/ HoldPress
    \/ HoldRelease
    \/ HoldTick
    \/ HoldUpdate

SpecHold == InitHold /\ [][NextHold]_vars

\* fair sampling: the sample interval keeps elapsing and loop() keeps
\* calling update()
SpecHoldFair ==
    InitHold /\ [][NextHold]_vars /\ WF_vars(HoldTick) /\ WF_vars(HoldUpdate)

----------------------------------------------------------------------------
(* The application: loop() runs update() one statement at a time, the      *)
(* FALLING-edge interrupt runs rawISRbuttonPressed between any two of them *)
(* while interrupts are enabled, onButtonPressed transmits the frame.      *)
(* session is the history of the update() in progress:                     *)
(*   start, end : the engine when update() was entered and when it returned *)
(*   timer, raw : what update() read from the sample timer and from the pin *)
(*   isrs       : interrupt handlers run since update() was entered         *)
(*   fired      : callbacks invoked by this update()                        *)

MaxButtonChanges == 3

\* the frame onButtonPressed sends
AppCode == <<1, 0, 1, 1, 0, 0, 1, 0>>

AppLines == {HonestLine, [quiet |-> 0, script |-> <<>>, tail |-> "ff"]}

History(d) ==
    [start |-> d, end |-> d, returned |-> FALSE, timer |-> "none", raw |-> "none",
     isrs |-> 0, fired |-> <<>>]

InitApp ==
    /\ chip = Chip(0, 20, {})
    /\ line \in AppLines
    /\ NoCall
    /\ \E d \in {addCallback(setThreshold(
                     CircularDebounceBuffer(TRUE, SAMPLE_RATE_DEBOUNCE, FALSE),
                     THRESHOLD_DEBOUNCE), 1)} :
          /\ debouncing = d.debouncing
          /\ stableState = d.stableState
          /\ pressedDetected = d.pressedDetected
          /\ buffer = d.buffer
          /\ head = d.head
          /\ thresholdPercentage = d.thresholdPercentage
          /\ callbacks = d.callbacks
          /\ elapsed = d.elapsed
          /\ delayTime = d.delayTime
          /\ session = History(d)
    /\ pin = TRUE
    /\ pinChanges = 0
    /\ mcu = McuAfterSetup

\* a statement of the main loop that leaves the bus and the pin alone: the
\* engine becomes d, and the statement produces no pin-level event
AppStatement(name, d, result) ==
    /\ SetDeb(d)
    /\ call' = [name |-> name, args |-> <<>>, line |-> line]
    /\ ret' = result
    /\ log' = <<>>
    /\ UNCHANGED <<chip, line, csn, pin, pinChanges>>

\* update() returns with the engine d
AppReturn(d) ==
    /\ mcu' = [mcu EXCEPT !.pc = "poll", !.todo = {}, !.cb = 0]
    /\ session' = [session EXCEPT !.returned = TRUE, !.end = d]

\* the button contact closes: the FALLING edge raises the interrupt flag
AppPress ==
    /\ pin = TRUE
    /\ pinChanges < MaxButtonChanges
    /\ pin' = FALSE
    /\ pinChanges' = pinChanges + 1
    /\ mcu' = [mcu EXCEPT !.edge = TRUE]
    /\ UNCHANGED <<chip, line, csn, log, call, ret, debouncing, stableState, pressedDetected,
                   buffer, head, thresholdPercentage, callbacks, elapsed,
                   delayTime, session>>

\* the button contact opens
AppRelease ==
    /\ pin = FALSE
    /\ pinChanges < MaxButtonChanges
    /\ pin' = TRUE
    /\ pinChanges' = pinChanges + 1
    /\ UNCHANGED <<chip, line, csn, log, call, ret, debouncing, stableState, pressedDetected,
                   buffer, head, thresholdPercentage, callbacks, elapsed,
                   delayTime, session, mcu>>

\* the sample interval passes
AppTick ==
    /\ ~elapsed
    /\ elapsed' = TRUE
    /\ UNCHANGED <<chip, line, csn, log, call, ret, debouncing, stableState, pressedDetected,
                   buffer, head, thresholdPercentage, callbacks, delayTime, pin,
                   pinChanges, session, mcu>>

\* an interrupt handler that sends the frame itself
RawISRbuttonPressed_transmits ==
    /\ mcu.interrupts /\ mcu.edge
    /\ SetDeb(startDebounce(Deb))
    /\ \E r \in {transmitFrame(StartIO, AppCode)} :
          /\ chip' = r.io.chip
          /\ line' = [quiet |-> r.io.quiet, script |-> r.io.script, tail |-> r.io.tail]
          /\ csn' = r.io.csn
          /\ log' = r.io.log
    /\ UNCHANGED <<call, ret, pin, pinChanges>>
    /\ mcu' = [mcu EXCEPT !.edge = FALSE]
    /\ session' = IF mcu.pc \in {"loop", "poll"} \/ session.isrs = 2 THEN session
                  ELSE [session EXCEPT !.isrs = @ + 1]

\* the pending edge interrupt is served: rawISRbuttonPressed runs to its end
\* before the main loop goes on
RawISRbuttonPressed ==
    /\ mcu.interrupts /\ mcu.edge
    /\ SetDeb(startDebounce(Deb))
    /\ UNCHANGED <<chip, line, csn, log, call, ret, pin, pinChanges>>
    /\ mcu' = [mcu EXCEPT !.edge = FALSE]
    /\ session' = IF mcu.pc \in {"loop", "poll"} \/ session.isrs = 2 THEN session
                  ELSE [session EXCEPT !.isrs = @ + 1]

\* loop(): wdt_reset(), then update() is entered and tests _debouncing
LoopUpdate ==
    /\ mcu.pc = "loop"
    /\ AppStatement("update", Deb, [ret |-> FALSE])
    /\ IF ~debouncing
       THEN /\ mcu' = [mcu EXCEPT !.pc = "poll"]
            /\ session' = [History(Deb) EXCEPT !.returned = TRUE]
       ELSE /\ mcu' = [mcu EXCEPT !.pc = "timer"]
            /\ session' = History(Deb)

\* update(): isDelayTimeElapsed()
UpdateTimer ==
    /\ mcu.pc = "timer"
    /\ \E t \in {isDelayTimeElapsed(Deb)} :
          /\ AppStatement("update", t.d, [ret |-> FALSE])
          /\ IF t.ret
             THEN /\ mcu' = [mcu EXCEPT !.pc = "sample"]
                  /\ session' = [session EXCEPT !.timer = "elapsed"]
             ELSE /\ mcu' = [mcu EXCEPT !.pc = "poll"]
                  /\ session' = [session EXCEPT !.timer = "running",
                                                !.returned = TRUE, !.end = t.d]

\* update(): _buffer[_head] = adjusted
UpdateSample ==
    /\ mcu.pc = "sample"
    /\ AppStatement("update", [Deb EXCEPT !.buffer[head] = ~pin], [ret |-> FALSE])
    /\ mcu' = [mcu EXCEPT !.pc = "head"]
    /\ session' = [session EXCEPT !.raw = IF pin THEN "high" ELSE "low"]

\* update(): _head = (_head + 1) % BUFFER_SIZE
UpdateHead ==
    /\ mcu.pc = "head"
    /\ AppStatement("update", [Deb EXCEPT !.head = (head + 1) % BUFFER_SIZE],
                    [ret |-> FALSE])
    /\ mcu' = [mcu EXCEPT !.pc = "count"]
    /\ UNCHANGED session

\* update(): the count, the threshold and the choice of the branch
UpdateCount ==
    /\ mcu.pc = "count"
    /\ AppStatement("update", Deb, [ret |-> FALSE, trueCount |-> TrueCount(buffer)])
    /\ IF ~pressedDetected
       THEN IF TrueCount(buffer) >= thresholdCount(Deb)
            THEN /\ mcu' = [mcu EXCEPT !.pc = "press"]
                 /\ UNCHANGED session
            ELSE AppReturn(Deb)
       ELSE IF TrueCount(buffer) <= BUFFER_SIZE - thresholdCount(Deb)
            THEN /\ mcu' = [mcu EXCEPT !.pc = "release",
                                       !.todo = {"stableState", "pressedDetected",
                                                 "clearBuffer", "debouncing"}]
                 /\ UNCHANGED session
            ELSE AppReturn(Deb)

\* update(): _stableState = true; _pressedDetected = true
UpdatePress ==
    /\ mcu.pc = "press"
    /\ AppStatement("update", [Deb EXCEPT !.stableState = TRUE,
                                           !.pressedDetected = stableState],
                    [ret |-> FALSE])
    /\ mcu' = [mcu EXCEPT !.pc = IF stableState THEN "callbacks" ELSE "press",
                          !.cb = IF stableState THEN 1 ELSE 0]
    /\ UNCHANGED session

\* update(): the loop over the registered callbacks; a null pointer is
\* skipped, onButtonPressed (1) is entered, any other handler returns at once
UpdateCallbacks ==
    /\ mcu.pc = "callbacks"
    /\ AppStatement("update", Deb, [ret |-> FALSE])
    /\ IF mcu.cb > Len(callbacks) THEN AppReturn(Deb)
       ELSE IF callbacks[mcu.cb] = 1
       THEN /\ mcu' = [mcu EXCEPT !.pc = "noInterrupts"]
            /\ UNCHANGED session
       ELSE /\ mcu' = [mcu EXCEPT !.cb = @ + 1]
            /\ session' = IF callbacks[mcu.cb] = 0 THEN session
                          ELSE [session EXCEPT !.fired = Append(@, callbacks[mcu.cb])]

\* onButtonPressed without noInterrupts()
OnButtonPressedEnter_interruptsOn ==
    /\ mcu.pc \in {"noInterrupts", "wdt_disable", "call"}
    /\ AppStatement("onButtonPressed", Deb, [ret |-> FALSE])
    /\ mcu' = IF mcu.pc = "noInterrupts"
              THEN [mcu EXCEPT !.pc = "wdt_disable"]
              ELSE IF mcu.pc = "wdt_disable"
              THEN [mcu EXCEPT !.watchdog = FALSE, !.pc = "call"]
              ELSE [mcu EXCEPT !.pc = "transmitFrame"]
    /\ UNCHANGED session

\* onButtonPressed: noInterrupts(), wdt_disable(), then the call of
\* transmitFrame
OnButtonPressedEnter ==
    /\ mcu.pc \in {"noInterrupts", "wdt_disable", "call"}
    /\ AppStatement("onButtonPressed", Deb, [ret |-> FALSE])
    /\ mcu' = IF mcu.pc = "noInterrupts"
              THEN [mcu EXCEPT !.interrupts = FALSE, !.pc = "wdt_disable"]
              ELSE IF mcu.pc = "wdt_disable"
              THEN [mcu EXCEPT !.watchdog = FALSE, !.pc = "call"]
              ELSE [mcu EXCEPT !.pc = "transmitFrame"]
    /\ UNCHANGED session

\* transmitFrame runs and returns
OnButtonPressedTransmit ==
    /\ mcu.pc = "transmitFrame"
    /\ \E r \in {transmitFrame(StartIO, AppCode)} :
          /\ call' = [name |-> "transmitFrame", args |-> AppCode, line |-> line]
          /\ chip' = r.io.chip
          /\ line' = [quiet |-> r.io.quiet, script |-> r.io.script, tail |-> r.io.tail]
          /\ csn' = r.io.csn
          /\ log' = r.io.log
          /\ ret' = [ret |-> r.ret]
    /\ mcu' = [mcu EXCEPT !.pc = "wdt_enable"]
    /\ UNCHANGED <<debounceVars>>

\* onButtonPressed: wdt_enable(WDTO_8S), interrupts(), return
OnButtonPressedLeave ==
    /\ mcu.pc \in {"wdt_enable", "interrupts"}
    /\ AppStatement("onButtonPressed", Deb, ret)
    /\ IF mcu.pc = "wdt_enable"
       THEN /\ mcu' = [mcu EXCEPT !.watchdog = TRUE, !.pc = "interrupts"]
            /\ UNCHANGED session
       ELSE /\ mcu' = [mcu EXCEPT !.interrupts = TRUE, !.pc = "callbacks",
                                  !.cb = @ + 1]
            /\ session' = [session EXCEPT !.fired = Append(@, 1)]

\* update(): the stores of the release branch; the engine fields are not
\* volatile, so the build may order the stores in any way
UpdateRelease ==
    /\ mcu.pc = "release"
    /\ \E store \in mcu.todo :
          \E d \in {IF store = "stableState" THEN [Deb EXCEPT !.stableState = FALSE]
                     ELSE IF store = "pressedDetected"
                     THEN [Deb EXCEPT !.pressedDetected = FALSE]
                     ELSE IF store = "clearBuffer" THEN clearBuffer(Deb)
                     ELSE [Deb EXCEPT !.debouncing = FALSE]} :
              /\ AppStatement("update", d, [ret |-> FALSE, store |-> store])
              /\ IF mcu.todo = {store} THEN AppReturn(d)
                 ELSE /\ mcu' = [mcu EXCEPT !.todo = @ \ {store}]
                      /\ UNCHANGED session

\* loop(): the status report, when SEND_INTERVAL has passed
LoopStatusPoll ==
    /\ mcu.pc = "poll"
    /\ \E due \in BOOLEAN :
          \E io \in {IF due THEN readRegister(StartIO, MARCSTATE).io
                     ELSE StartIO} :
              /\ call' = [name |-> IF due THEN "statusPoll" ELSE "loop",
                          args |-> <<>>, line |-> line]
              /\ chip' = io.chip
              /\ line' = [quiet |-> io.quiet, script |-> io.script, tail |-> io.tail]
              /\ csn' = io.csn
              /\ log' = io.log
              /\ ret' = [ret |-> due]
    /\ mcu' = [mcu EXCEPT !.pc = "loop"]
    /\ session' = History(Deb)
    /\ UNCHANGED <<debouncing, stableState, pressedDetected, buffer, head,
                   thresholdPercentage, callbacks, elapsed, delayTime, pin,
                   pinChanges>>

NextApp ==
    \/ AppPress
    \/ AppRelease
    \/ AppTick
    \/ RawISRbuttonPressed
    \/ LoopUpdate
    \/ UpdateTimer
    \/ UpdateSample
    \/ UpdateHead
    \/ UpdateCount
    \/ UpdatePress
    \/ UpdateCallbacks
    \/ OnButtonPressedEnter
    \/ OnButtonPressedTransmit
    \/ OnButtonPressedLeave
    \/ UpdateRelease
    \/ LoopStatusPoll

SpecApp == InitApp /\ [][NextApp]_vars

----------------------------------------------------------------------------
(* Reading the log                                                         *)

IsXfer(l, i) == i \in 1..Len(l) /\ l[i].e = "xfer"

\* position i starts a single-register read transaction (header, dummy)
IsReadAt(l, i) ==
    /\ IsXfer(l, i) /\ IsXfer(l, i + 1)
    /\ l[i].a >= 128 /\ l[i].a < 192
    /\ (i = 1 \/ l[i - 1].e = "csn")

\* position i starts a single-register write transaction (header, value)
IsWriteAt(l, i) ==
    /\ IsXfer(l, i) /\ IsXfer(l, i + 1)
    /\ l[i].a < 64
    /\ (i = 1 \/ l[i - 1].e = "csn")

\* position i is a one-byte transaction sending command cmd
IsStrobeAt(l, i, cmd) ==
    /\ IsXfer(l, i) /\ l[i].a = cmd
    /\ l[i - 1].e = "csn" /\ l[i + 1].e = "csn"

\* the positions of the read headers sent from position `from` of the log on
ReadsFrom(l, from) == {i \in from..Len(l) : IsReadAt(l, i)}

NumXfers(l) == Cardinality({i \in 1..Len(l) : l[i].e = "xfer"})

ValidAddress(a) == a <= AddressMask

----------------------------------------------------------------------------
(* Claims on SPIBus (SpecBus)                                              *)

\* C1: for a valid address writeRegister makes 1..3 write attempts, returns
\* true exactly when the read-back of its last attempt equals the value (so
\* it stops there), returns false only after 3 failed attempts, and on an
\* honest line with a storing register returns true after one write.
C1_WriteRegisterResult ==
    (call.name = "writeRegister" /\ ValidAddress(call.args[1])) =>
        /\ ret.writes \in 1..3
        /\ (ret.readResult.value = call.args[2]) => ret.ret = TRUE
        /\ (ret.ret = FALSE) => (ret.writes = 3 /\ ret.readResult.value # call.args[2])
        /\ (call.line = HonestLine /\ call.args[1] \notin chip.ro)
               => (ret.ret = TRUE /\ ret.writes = 1)

\* C6: with valid parameters readBurst makes 1..3 burst exchanges, returns
\* true as soon as an exchange returned a byte other than 0xFF, and returns
\* false after exactly 3 exchanges that returned only 0xFF.
C6_ReadBurstResult ==
    (/\ call.name = "readBurstRegister"
     /\ ValidAddress(call.args[1])
     /\ call.args[2] \in 1..64
     /\ ~call.args[3]) =>
        /\ ret.reads \in 1..3
        /\ ret.good => ret.ret = TRUE
        /\ ~ret.good => (ret.ret = FALSE /\ ret.reads = 3)

\* C7: a read result is invalid iff status = 0xFF and value = 0xFF; a reply
\* with exactly one 0xFF byte ends readRegister at once and satisfies the
\* read-back check of writeRegister(addr, 0xFF).
C7_InvalidIffBothFF ==
    /\ (call.name = "readRegister" /\ ValidAddress(call.args[1])) =>
          /\ ret.valid <=> ~(ret.ret.status = 255 /\ ret.ret.value = 255)
          /\ \A i \in 1..Len(log) :
                (IsReadAt(log, i) /\ ~(log[i].b = 255 /\ log[i + 1].b = 255))
                    => ~\E j \in (i + 1)..Len(log) : IsReadAt(log, j)
    /\ (/\ call.name = "writeRegister" /\ ValidAddress(call.args[1])
        /\ call.args[2] = 255
        /\ ret.readResult.value = 255 /\ ret.readResult.status # 255)
          => ret.attempts < ret.writes

\* C14: readBurst rejects invalid parameters before any I/O: with an address
\* above 0x3F, a null buffer, or a length of 0 or above 64, it returns false
\* and performs no bus transfer.
C14_ReadBurstRejectsInvalid ==
    (/\ call.name = "readBurstRegister"
     /\ \/ call.args[1] > AddressMask
        \/ call.args[3]
        \/ call.args[2] = 0
        \/ call.args[2] > 64) =>
        /\ ret.ret = FALSE
        /\ NumXfers(log) = 0

\* C16: for a valid address a and a value v, on a line that carries every
\* transaction and a register that stores writes, writeRegister(a, v)
\* followed by readRegister(a) yields value v.
C16_WriteThenReadYieldsValue ==
    (/\ call.name = "readBack"
     /\ ValidAddress(call.args[1])
     /\ call.args[3] = HonestLine
     /\ call.args[1] \notin chip.ro) =>
        ret.ret.value = call.args[2]

\* a value other than 0xFF and the power-on value, written and read back
C16_Witness ==
    /\ call.name = "readBack" /\ call.args = <<IOCFG0, 46, HonestLine>>
    /\ ret.ret.value = 46 /\ ret.valid

\* C17: for an address above 0x3F, writeRegister returns false and
\* readRegister returns (0xFF, 0xFF), and neither asserts the select line
\* nor performs a bus transfer.
C17_InvalidAddressNoIO ==
    (/\ call.name \in {"writeRegister", "readRegister"}
     /\ ~ValidAddress(call.args[1])) =>
        /\ log = <<>>
        /\ csn = 1
        /\ call.name = "writeRegister" => ret.ret = FALSE
        /\ call.name = "readRegister" => ret.ret = ReadResult(255, 255)

\* readRegister was called with the first address above the maximum, after
\* an earlier call that did use the bus
C17_Witness ==
    /\ call.name = "readRegister" /\ call.args[1] = AddressMask + 1
    /\ ret.ret = ReadResult(255, 255)
    /\ chip.regs[IOCFG0] = 46

\* a reply is invalid iff both of its bytes are 0xFF
ValidReply(l, i) == ~(l[i].b = 255 /\ l[i + 1].b = 255)

\* C18: readRegister on a valid address makes exactly 3 read transactions
\* and returns the invalid result when every reply is (0xFF, 0xFF); when
\* the k-th reply (k <= 3) is the first valid one, it makes exactly k
\* transactions and returns that reply.
C18_ReadTransactions ==
    (call.name = "readRegister" /\ ValidAddress(call.args[1])) =>
        LET rd == ReadsFrom(log, 1)
        IN  /\ (\A i \in rd : ~ValidReply(log, i))
                  => /\ Cardinality(rd) = 3
                     /\ ret.ret = ReadResult(255, 255)
            /\ \A i \in rd :
                  (ValidReply(log, i) /\ \A j \in rd : j < i => ~ValidReply(log, j))
                      => /\ \A j \in rd : j <= i
                         /\ ret.ret = ReadResult(log[i].b, log[i + 1].b)

\* C19: writeBurst returns false without any bus transfer when len is 0 or
\* above 64 or the address is not a burst-capable one; for a burst-capable
\* address (the FIFO 0x3F, the power table 0x3E) it returns true after one
\* transaction holding the address with the burst-write tag and then the
\* len data bytes in index order.
C19_WriteBurstResult ==
    (call.name = "writeBurstRegister" /\ ~call.args[3]) =>
        /\ (\/ call.args[2] = 0
            \/ call.args[2] > 64
            \/ call.args[1] \notin {FIFOTHR, PATABLE, 63}) =>
              /\ ret.ret = FALSE
              /\ log = <<>>
        /\ (call.args[2] \in 1..64 /\ call.args[1] \in {PATABLE, 63}) =>
              /\ ret.ret = TRUE
              /\ Len(log) = call.args[2] + 3
              /\ log[1] = Ev("csn", 0, 0)
              /\ IsXfer(log, 2)
              /\ log[2].a = call.args[1] + writeBurstRegister_flag
              /\ \A k \in 1..call.args[2] :
                    IsXfer(log, 2 + k) /\ log[2 + k].a = BurstData[k]
              /\ log[Len(log)] = Ev("csn", 1, 0)

----------------------------------------------------------------------------
(* Claims on the configuration applier (SpecConfig)                        *)

\* entry j of the applied list produced some bus event
Attempted(j) == ret.done[j].to >= ret.done[j].from

\* C2: the applier handles the entries in list order and stops at the first
\* entry whose write is not read back (or whose verify read-back differs):
\* no write or read is issued for any later entry.
C2_StopsAtFirstFailure ==
    (call.name = "applyRegisterConfig") =>
        /\ \A j \in 1..Len(ret.done) :
              Attempted(j) => log[ret.done[j].from + 1].a = call.args[j][1]
        /\ \A i, j \in 1..Len(ret.done) :
              (i < j /\ ~ret.done[i].matched) => ~Attempted(j)

\* C8: the applier returns true only if every entry was written and read
\* back equal; if an entry failed it returns false.
C8_TrueOnlyIfAllSucceeded ==
    (call.name = "applyRegisterConfig" /\ ret.ret = TRUE) =>
        /\ Len(ret.done) = Len(call.args)
        /\ \A i \in 1..Len(ret.done) : ret.done[i].matched

----------------------------------------------------------------------------
(* Claims on begin() (SpecBegin)                                           *)

\* C9: if a configuration write exhausts its attempts (or the reset
\* sequence never verifies the chip), begin() returns false.
C9_BeginFailsOnConfigFailure ==
    (/\ call.name = "begin"
     /\ \/ \E i \in 1..Len(ret.done) : ~ret.done[i].matched
        \/ ~ret.resetVerified)
        => ret.ret = FALSE

\* the last verification attempt read PARTNUM as 0x00 and then VERSION as
\* 0x14: the last read of the log is a VERSION read answering 0x14, and the
\* last PARTNUM read before it answered 0x00
LastAttemptVerified(l, from) ==
    LET rd == ReadsFrom(l, from)
        pn == {i \in rd : l[i].a = 128 + PARTNUM}
    IN  /\ rd # {} /\ pn # {}
        /\ LET last  == CHOOSE i \in rd : \A j \in rd : j <= i
               lastP == CHOOSE i \in pn : \A j \in pn : j <= i
           IN  /\ l[last].a = 128 + VERSION /\ l[last + 1].b = 20
               /\ l[lastP + 1].b = 0
               /\ \A j \in rd : j > lastP => l[j].a = 128 + VERSION

\* C10: begin() makes 1 to 3 verification attempts and returns true exactly
\* when one attempt read PARTNUM as 0x00 and VERSION as 0x14, that attempt
\* being the last one made; otherwise it returns false.
C10_BeginTrueIffVerified ==
    (call.name = "begin") =>
        /\ Len(ret.checks) \in 1..3
        /\ ret.ret = TRUE <=> (\E k \in 1..Len(ret.checks) : ret.checks[k] = <<0, 20>>)
        /\ \A k \in 1..Len(ret.checks) :
              ret.checks[k] = <<0, 20>> <=> (ret.ret = TRUE /\ k = Len(ret.checks))
        /\ ret.ret = TRUE => LastAttemptVerified(log, ret.verifyFrom)
        /\ (ret.ret = FALSE /\ ReadsFrom(log, ret.verifyFrom) # {})
              => ~LastAttemptVerified(log, ret.verifyFrom)

\* begin() returned true on its second or third verification attempt
C10_Witness ==
    /\ call.name = "begin" /\ ret.ret = TRUE
    /\ Len(ret.checks) >= 2
    /\ ret.checks[1] # <<0, 20>>

\* begin() returned false after three failed verification attempts
C10_WitnessFalse ==
    /\ call.name = "begin" /\ ret.ret = FALSE
    /\ Len(ret.checks) = 3

\* C15: in the power-on-reset sequence the reset command is sent with the
\* select line asserted, after the select pulse and the chip-ready poll, and
\* no register read is issued between the reset command and the end of the
\* 10 ms stabilization wait that follows it.
C15_NoReadBeforeStabilization ==
    (call.name = "begin") =>
        \A i \in 1..Len(log) :
            IsStrobeAt(log, i, SRES) =>
                /\ log[i].c = 0
                /\ \E p \in 1..i : log[p].e = "pollMISO"
                /\ \A k \in (i + 1)..Len(log) :
                      IsReadAt(log, k) =>
                          \E d \in (i + 1)..k :
                              log[d].e = "delayMs" /\ log[d].a = 10

----------------------------------------------------------------------------
(* Claims on the controller (SpecRadio)                                    *)

\* C3: transmitFrame emits a waveform symbol only after a TX command was
\* issued and the mode register then read the TX-state code 0x13.
C3_SymbolsOnlyAfterTxConfirmed ==
    (call.name = "transmitFrame") =>
        \A i \in 1..Len(log) :
            log[i].e \in Symbols =>
                /\ ret.txConfirmed
                /\ \E j, k \in 1..i :
                      /\ j < k
                      /\ IsStrobeAt(log, j, STX)
                      /\ IsReadAt(log, k) /\ log[k].a = 128 + MARCSTATE
                      /\ log[k + 1].b = 19

\* C5: programming the power table sends, in one transaction, the burst
\* write header of the power-table address 0x3E followed by the 8 table
\* bytes in order.
C5_PowerTableOnBus ==
    (call.name = "setPowerLevel") =>
        /\ ret.ret = TRUE
        /\ \E i \in 1..Len(log) :
              /\ IsXfer(log, i) /\ log[i].a = PATABLE + 64
              /\ \A k \in 1..8 : IsXfer(log, i + k) /\ log[i + k].a = paTable[k]

\* the final idle command of transmitFrame: a SIDLE strobe sent after the
\* last event of the waveform
IdleAfterWaveform(l, streamTo) ==
    \E i \in (streamTo + 1)..Len(l) : IsStrobeAt(l, i, SIDLE)

\* C11: transmitFrame returns true only if TX mode was confirmed, the frame
\* was streamed and the idle command after the waveform succeeded; it
\* returns false whenever TX mode could not be entered; the idle command is
\* always issued after the waveform.
C11_TransmitFrameResult ==
    (call.name = "transmitFrame") =>
        /\ ret.ret = TRUE =>
              /\ ret.txConfirmed
              /\ \E i \in ret.streamFrom..ret.streamTo : log[i].e \in Symbols
        /\ ~ret.txConfirmed => ret.ret = FALSE
        /\ IdleAfterWaveform(log, ret.streamTo)

\* C12: updating the power index writes FREND0 (0x22) with bits 2..0 equal
\* to the index and bits 7..3 equal to those just read from FREND0, and
\* writes no register other than FREND0.
C12_PowerIndexWritesFREND0 ==
    (call.name = "setPowerLevel" /\ call.args[1] <= 7) =>
        /\ \A i \in 1..Len(log) : IsWriteAt(log, i) => log[i].a = FREND0
        /\ \E k, i \in 1..Len(log) :
              /\ k < i
              /\ IsReadAt(log, k) /\ log[k].a = 128 + FREND0
              /\ IsWriteAt(log, i) /\ log[i].a = FREND0
              /\ log[i + 1].a % 8 = call.args[1]
              /\ log[i + 1].a \div 8 = log[k + 1].b \div 8

\* the positions where command cmd is sent
Sends(l, cmd) == {i \in 1..Len(l) : IsStrobeAt(l, i, cmd)}

\* the identity value read after the send at i: the value byte of the last
\* PARTNUM read made before the next send (-1 if there is no such read)
IdentityAfter(l, cmd, i) ==
    LET later == {j \in Sends(l, cmd) : j > i}
        last  == IF later = {} THEN Len(l)
                 ELSE (CHOOSE j \in later : \A m \in later : j <= m) - 1
        rd    == {k \in i..last : IsReadAt(l, k) /\ l[k].a = 128 + PARTNUM}
    IN  IF rd = {} THEN -1
        ELSE l[(CHOOSE k \in rd : \A m \in rd : m <= k) + 1].b

\* C20: strobeCommand sends the command 1 to 3 times and reads the identity
\* register after each send; it stops and returns true after the first send
\* followed by an identity read of 0x00, and returns false iff the identity
\* read differed from 0x00 after each of 3 sends.
C20_StrobeSends ==
    (call.name = "strobeCommand") =>
        LET S == Sends(log, call.args[1])
        IN  /\ Cardinality(S) \in 1..3
            /\ Cardinality(S) = ret.sends
            /\ \A i \in S : IdentityAfter(log, call.args[1], i) # -1
            /\ \A i \in S :
                  IdentityAfter(log, call.args[1], i) = 0
                      => (ret.ret = TRUE /\ \A j \in S : j <= i)
            /\ \A i \in S :
                  (/\ IdentityAfter(log, call.args[1], i) # 0
                   /\ Cardinality({j \in S : j <= i}) < 3)
                      => \E j \in S : j > i
            /\ ret.ret = FALSE <=>
                  (/\ Cardinality(S) = 3
                   /\ \A i \in S : IdentityAfter(log, call.args[1], i) # 0)

\* the command was sent twice: the identity read after the first send was
\* not 0x00, the one after the second was
C20_Witness ==
    /\ call.name = "strobeCommand" /\ ret.ret = TRUE /\ ret.sends = 2
    /\ Cardinality(Sends(log, call.args[1])) = 2

\* the command was sent 3 times without an identity read of 0x00
C20_WitnessFalse ==
    /\ call.name = "strobeCommand" /\ ret.ret = FALSE /\ ret.sends = 3

\* the encoder calls of the waveform of the last transmitFrame, in order
SymbolCalls ==
    SelectSeq(SubSeq(log, ret.streamFrom, ret.streamTo),
              LAMBDA ev : ev.e \in Symbols)

\* the k-th encoder call of a frame of bits: preamble, then words of
\* Len(bits) data symbols and a trailer separated by silences, then idle
ExpectedCall(bits, k) ==
    LET N     == Len(bits)
        total == 1 + (1 + FRAME_REPEATS) * (N + 1) + FRAME_REPEATS + 1
        pos   == (k - 2) % (N + 2)
    IN  IF k = 1 THEN "sendPreamble"
        ELSE IF k = total THEN "setIdle"
        ELSE IF pos = N + 1 THEN "sendSilence"
        ELSE IF pos = N THEN "sendOpen"
        ELSE IF bits[pos + 1] = 1 THEN "sendOne"
        ELSE "sendZero"

\* C21: for an N-bit frame streamFrame calls the encoder in this order:
\* sendPreamble; a word (sendOne / sendZero per bit in index order, then
\* sendOpen); FRAME_REPEATS times {sendSilence, word}; setIdle.  That is
\* 1 + (1 + repeats) * (N + 1) + repeats + 1 calls, 41 for N = 8.
C21_SymbolCallOrder ==
    (call.name = "transmitFrame") =>
        /\ Len(SymbolCalls) = 1 + (1 + FRAME_REPEATS) * (Len(call.args) + 1)
                                + FRAME_REPEATS + 1
        /\ Len(call.args) = 8 => Len(SymbolCalls) = 41
        /\ \A k \in 1..Len(SymbolCalls) :
              SymbolCalls[k].e = ExpectedCall(call.args, k)
        /\ Cardinality({k \in 1..Len(SymbolCalls) : SymbolCalls[k].e = "sendOpen"})
              = 1 + FRAME_REPEATS

\* an 8-bit frame holding both bit values was streamed in 41 calls
C21_Witness ==
    /\ call.name = "transmitFrame"
    /\ call.args = <<1, 0, 1, 1, 0, 0, 1, 0>>
    /\ Len(SymbolCalls) = 41
    /\ SymbolCalls[2].e = "sendOne" /\ SymbolCalls[3].e = "sendZero"

\* the pulses documented for each symbol, as (level, duration) steps on the
\* line; T_SHORT and T_LONG are the short and long durations
T_SHORT == SHORT_HIGH_US
T_LONG  == LONG_HIGH_US

High(us) == <<Pin(1), DelayUs(us)>>
Low(us)  == <<Pin(0), DelayUs(us)>>

DocumentedPulses(symbol) ==
    CASE symbol = "sendOne"  -> High(T_LONG) \o Low(T_SHORT) \o High(T_LONG) \o Low(T_SHORT)
      [] symbol = "sendZero" -> High(T_SHORT) \o Low(T_LONG) \o High(T_SHORT) \o Low(T_LONG)
      [] symbol = "sendOpen" -> High(T_LONG) \o Low(T_SHORT) \o High(T_SHORT) \o Low(T_LONG)
      [] symbol = "sendSilence"  -> Low(FRAME_SILENCE_BETWEEN_WORDS) \o <<Pin(1)>>
      [] symbol = "sendPreamble" -> Low(PREAMBLE_LOW_DURATION_US)
      [] symbol = "setIdle"      -> <<Pin(1)>>

\* the events that follow the encoder call at position i of l, up to the
\* next encoder call or position `to`
PulsesOf(l, i, to) ==
    LET later == {j \in (i + 1)..to : l[j].e \in Symbols}
        last  == IF later = {} THEN to
                 ELSE (CHOOSE j \in later : \A m \in later : j <= m) - 1
    IN  SubSeq(l, i + 1, last)

\* C22: each encoder symbol drives the line with its documented pulses
\* (1: twice high long, low short; 0: twice high short, low long; trailer:
\* high long, low short, high short, low long; silence: low for the gap,
\* then high; preamble: low for the sync duration; idle: high), and the
\* line is high when streamFrame returns.
C22_SymbolPulses ==
    (call.name = "transmitFrame") =>
        /\ SHORT_LOW_US = T_SHORT /\ LONG_LOW_US = T_LONG
        /\ \A i \in ret.streamFrom..ret.streamTo :
              log[i].e \in Symbols =>
                  PulsesOf(log, i, ret.streamTo) = DocumentedPulses(log[i].e)
        /\ \E i \in ret.streamFrom..ret.streamTo :
              /\ log[i] = Pin(1)
              /\ \A j \in (i + 1)..ret.streamTo : log[j].e # "pin"

\* a frame using all six symbols was streamed
C22_Witness ==
    /\ call.name = "transmitFrame"
    /\ \A sym \in Symbols :
          \E i \in ret.streamFrom..ret.streamTo : log[i].e = sym

----------------------------------------------------------------------------
(* Claims on the status report (SpecStatus)                                *)

\* the chip state named for the value of bits 7..4 of a status byte
StateOfNibble(n) ==
    CASE n = 0 -> "IDLE"
      [] n = 1 -> "RX"
      [] n = 2 -> "TX"
      [] n = 3 -> "FSTXON"
      [] n = 4 -> "CALIBRATING"
      [] n = 5 -> "SETTLING"
      [] n = 6 -> "RX FIFO OVERFLOW"
      [] n = 7 -> "TX FIFO UNDERFLOW"
      [] OTHER -> "UNKNOWN"

\* C13: the chip state reported for a status byte is the one selected by its
\* bits 7..4 (UNKNOWN for 8..15, so UNKNOWN for the status 0xFF of an
\* exhausted read), and fifoBytes equals its bits 3..0.
C13_ReportedChipState ==
    (call.name \in {"decodeStatus", "statusPoll"}) =>
        /\ ret.text[2] = StateOfNibble(ret.status \div 16)
        /\ ret.status = 255 => ret.text[2] = "UNKNOWN"
        /\ ret.info.fifoBytes = ret.status % 16

----------------------------------------------------------------------------
(* Claims on the debouncer (SpecDebounce)                                  *)

\* C4: with K = 16 and 60% (thresholdCount 10), an update() that samples
\* before a press was detected fires exactly when the sample brings the
\* count of true slots to 10 or more: it then sets the stable state to
\* pressed and the press-fired flag, invokes each registered callback once
\* in order, and stays armed.  No other update() invokes a callback, and a
\* firing happens only in a first session or after a release was confirmed
\* and a new session armed.
C4_PressFiresOnce ==
    (call.name = "update" /\ thresholdPercentage = 60) =>
        /\ (ret.sampled /\ ~ret.before.pressedDetected /\ ret.trueCount >= 10)
              => /\ stableState /\ pressedDetected /\ debouncing
                 /\ ret.invoked = SelectSeq(callbacks, LAMBDA cb : cb # 0)
                 /\ TrueCount(buffer) = ret.trueCount
        /\ ~(ret.sampled /\ ~ret.before.pressedDetected /\ ret.trueCount >= 10)
              => ret.invoked = <<>>
        /\ (ret.sampled /\ ~ret.before.pressedDetected /\ ret.trueCount < 10)
              => /\ ~pressedDetected /\ debouncing
                 /\ stableState = ret.before.stableState
        /\ ret.invoked # <<>> => ret.before.phase \in {"none", "rearmed"}

\* the callbacks fire for the second time, on the sample that makes the
\* count 10, in a session armed after a confirmed release
C4_Witness ==
    /\ call.name = "update" /\ thresholdPercentage = 60
    /\ ret.invoked # <<>> /\ ret.trueCount = 10
    /\ ret.before.phase = "rearmed" /\ session.presses = 2

AllFalse == [i \in 0..(BUFFER_SIZE - 1) |-> FALSE]

\* C23: startDebounce arms a session (armed, press-fired cleared, buffer
\* cleared, cursor 0, sample timer restarted) only when the engine is
\* disarmed and stable = released; otherwise the trigger is ignored and
\* buffer, cursor, flags and timer are unchanged.
C23_StartDebounceArms ==
    [][(call'.name = "startDebounce") =>
          IF ~debouncing /\ ~stableState
          THEN /\ debouncing' /\ ~pressedDetected'
               /\ buffer' = AllFalse /\ head' = 0
               /\ ~elapsed'
               /\ UNCHANGED <<stableState, thresholdPercentage, callbacks>>
          ELSE UNCHANGED <<debouncing, stableState, pressedDetected, buffer,
                           head, elapsed, thresholdPercentage, callbacks>>]_vars

\* a trigger was ignored while a session was armed with samples in the
\* buffer and the sample timer elapsed
C23_Witness ==
    /\ call.name = "startDebounce" /\ ~ret.armed
    /\ debouncing /\ TrueCount(buffer) > 0 /\ head # 0 /\ elapsed

\* a trigger armed a session
C23_WitnessArmed ==
    /\ call.name = "startDebounce" /\ ret.armed
    /\ debouncing /\ buffer = AllFalse /\ session.phase = "rearmed"

\* C24: after a press has fired (K = 16, 60%), a sample with trueCount <= 6
\* sets stable = released, clears the press-fired flag and the buffer and
\* disarms; a sample with trueCount > 6 changes only the slot written and
\* the cursor.
C24_ReleaseConfirmed ==
    [][(/\ call'.name = "update" /\ ret'.sampled
        /\ pressedDetected /\ thresholdPercentage = 60) =>
          /\ ret'.trueCount = TrueCount([buffer EXCEPT ![head] = ~pin])
          /\ IF ret'.trueCount <= 6
             THEN /\ ~stableState' /\ ~pressedDetected' /\ ~debouncing'
                  /\ buffer' = AllFalse /\ head' = 0
             ELSE /\ buffer' = [buffer EXCEPT ![head] = ~pin]
                  /\ head' = (head + 1) % BUFFER_SIZE
                  /\ UNCHANGED <<debouncing, stableState, pressedDetected>>
          /\ ret'.invoked = <<>>
          /\ UNCHANGED <<thresholdPercentage, callbacks>>]_vars

\* the sample that brings the count down to 6 confirmed the release
C24_Witness ==
    /\ call.name = "update" /\ ret.sampled /\ ret.before.pressedDetected
    /\ ret.trueCount = 6
    /\ ~debouncing /\ ~stableState /\ ~pressedDetected /\ buffer = AllFalse

\* a sample after the press fired left the session armed with 7 true slots
C24_WitnessHeld ==
    /\ call.name = "update" /\ ret.sampled /\ ret.before.pressedDetected
    /\ ret.trueCount = 7 /\ debouncing /\ stableState /\ pressedDetected

\* the least n with n * b >= a
Ceil(a, b) == CHOOSE n \in 0..a : n * b >= a /\ (n = 0 \/ (n - 1) * b < a)

\* C25: for K = 16 and every threshold percentage p the engine can hold
\* (0..100), the threshold of update(), (K * p + 99) / 100 in integer
\* arithmetic, equals ceil(K * p / 100) and fits 8 bits without overflow;
\* p = 60 gives 10.
C25_ThresholdIsCeil ==
    (call.name = "thresholdCount") =>
        /\ thresholdPercentage \in 0..100
        /\ call.args[1] = thresholdPercentage
        /\ ret.ret = Ceil(BUFFER_SIZE * thresholdPercentage, 100)
        /\ BUFFER_SIZE * thresholdPercentage + 99 < 65536
        /\ (BUFFER_SIZE * thresholdPercentage + 99) \div 100 < 256
        /\ thresholdPercentage = 60 => ret.ret = 10

\* the threshold of a percentage whose product with K exceeds 8 bits and is
\* not a multiple of 100
C25_Witness ==
    /\ call.name = "thresholdCount" /\ thresholdPercentage = 99
    /\ ret.ret = 16


\* C26: with the threshold at 0% the first sample taken after arming confirms
\* the press (stable = pressed, press-fired set, the non-null callbacks
\* invoked) whatever the sampled value; with the threshold at 100% a press is
\* confirmed only by a sample that leaves all K = 16 slots true, which is
\* never earlier than the K-th sample after arming.
C26_ThresholdExtremes ==
    [][(call'.name = "update" /\ ret'.sampled) =>
          /\ (thresholdPercentage = 0 /\ session.samples = 0) =>
                /\ pressedDetected' /\ stableState' /\ debouncing'
                /\ ret'.invoked = SelectSeq(callbacks, LAMBDA cb : cb # 0)
          /\ (thresholdPercentage = 100 /\ pressedDetected' /\ ~pressedDetected) =>
                /\ buffer' = [i \in 0..(BUFFER_SIZE - 1) |-> TRUE]
                /\ session'.samples >= BUFFER_SIZE]_vars

\* at 100% the 16th sample after arming confirmed the press
C26_Witness ==
    /\ call.name = "update" /\ ret.sampled /\ thresholdPercentage = 100
    /\ pressedDetected /\ ~ret.before.pressedDetected
    /\ session.samples = BUFFER_SIZE /\ ret.invoked = <<1, 2>>

\* at 0% the first sample after arming, taken with the button released,
\* confirmed the press
C26_WitnessZero ==
    /\ call.name = "update" /\ ret.sampled /\ thresholdPercentage = 0
    /\ call.args = <<TRUE>> /\ session.samples = 1
    /\ pressedDetected /\ stableState /\ ret.invoked = <<1, 2>>

\* at 0% the first sample after arming, taken with the button held,
\* confirmed the press
C26_WitnessZeroHeld ==
    /\ call.name = "update" /\ ret.sampled /\ thresholdPercentage = 0
    /\ call.args = <<FALSE>> /\ session.samples = 1
    /\ pressedDetected /\ stableState

\* C27: reset() of the debounce engine, from any state, leaves the buffer
\* all false with the cursor at 0, stable = released, press-fired cleared,
\* the engine disarmed and no callback registered; the sample interval and
\* the threshold percentage are unchanged.
C27_ResetClears ==
    [][(call'.name = "reset") =>
          /\ buffer' = AllFalse /\ head' = 0
          /\ ~stableState' /\ ~pressedDetected' /\ ~debouncing'
          /\ callbacks' = <<>>
          /\ UNCHANGED <<delayTime, thresholdPercentage>>]_vars

\* reset() was called on an armed engine whose press had fired, with a
\* changed sample interval and callbacks registered
C27_Witness ==
    /\ call.name = "reset"
    /\ ret.before.debouncing /\ ret.before.stableState
    /\ ret.before.pressedDetected /\ ret.before.callbacks = <<1, 0, 2>>
    /\ delayTime = 500 /\ thresholdPercentage = 100
    /\ buffer = AllFalse /\ callbacks = <<>>


\* the positions of the write transactions to register a
WritesTo(l, a) == {i \in 1..Len(l) : IsWriteAt(l, i) /\ l[i].a = a}

\* the values written to register a
ValuesWritten(l, a) == {l[i + 1].a : i \in WritesTo(l, a)}

\* every write to a comes before every write to b, and both are written
WrittenBefore(l, a, b) ==
    /\ WritesTo(l, a) # {} /\ WritesTo(l, b) # {}
    /\ \A i \in WritesTo(l, a), j \in WritesTo(l, b) : i < j

\* x * y as <<high, low>> in base 4096, for x < 2^30 and y < 2^18
WideMul(x, y) ==
    <<(x \div 4096) * y + ((x % 4096) * y) \div 4096, ((x % 4096) * y) % 4096>>

WideLeq(p, q) == p[1] < q[1] \/ (p[1] = q[1] /\ p[2] <= q[2])

\* w = floor(hz * 65536 / xosc): w * xosc <= hz * 65536 < (w + 1) * xosc,
\* both sides divided by 128
IsFloorWord(w, hz, xosc) ==
    /\ WideLeq(WideMul(w, xosc \div 128), WideMul(hz, 512))
    /\ ~WideLeq(WideMul(w + 1, xosc \div 128), WideMul(hz, 512))

Accepted(hz) == hz >= 300000000 /\ hz <= 928000000

\* C28: for every accepted hz in [300,000,000, 928,000,000] the word
\* setFrequency computes is floor(hz * 65536 / 26,000,000) (the 64-bit product
\* is below 2^46), it fits in 24 bits, and bits 23..16 are written to FREQ2
\* (0x0D), bits 15..8 to FREQ1 (0x0E) and bits 7..0 to FREQ0 (0x0F), in that
\* order, and no other register is written.
C28_FrequencyWord ==
    (call.name = "setFrequency" /\ Accepted(call.args[1])) =>
        \A freq \in {MulDiv65536(call.args[1], F_XOSC)} :
            /\ F_XOSC = 26000000 /\ FREQ2 = 13 /\ FREQ1 = 14 /\ FREQ0 = 15
            /\ call.args[1] < 1073741824
            /\ IsFloorWord(freq, call.args[1], 26000000)
            /\ freq >= 0 /\ freq < 16777216
            /\ ValuesWritten(log, FREQ2) = {(freq \div 65536) % 256}
            /\ ValuesWritten(log, FREQ1) = {(freq \div 256) % 256}
            /\ ValuesWritten(log, FREQ0) = {freq % 256}
            /\ WrittenBefore(log, FREQ2, FREQ1)
            /\ WrittenBefore(log, FREQ1, FREQ0)
            /\ \A i \in 1..Len(log) :
                  IsWriteAt(log, i) => log[i].a \in {FREQ2, FREQ1, FREQ0}

\* the largest accepted frequency was programmed on a line with faults, with
\* a write repeated
C28_Witness ==
    /\ call.name = "setFrequency" /\ call.args = <<928000000>>
    /\ call.line # HonestLine
    /\ Cardinality(WritesTo(log, FREQ2)) > 1
    /\ chip.regs[FREQ2] = 35 /\ chip.regs[FREQ1] = 177 /\ chip.regs[FREQ0] = 59

\* C29 as stated: setFrequency(315000000) with a 26 MHz oscillator computes
\* the word 793161 and programs the bytes (0x0C, 0x1B, 0x09) in high, mid,
\* low order.
C29_Word315 ==
    (call.name = "setFrequency" /\ call.args = <<315000000>>) =>
        /\ MulDiv65536(315000000, F_XOSC) = 793161
        /\ ValuesWritten(log, FREQ2) = {12}
        /\ ValuesWritten(log, FREQ1) = {27}
        /\ ValuesWritten(log, FREQ0) = {9}

\* C29 amended: setFrequency(315000000) with a 26 MHz oscillator computes the
\* word floor(315000000 * 65536 / 26000000) = 793993 (0x0C1D89) and programs
\* the bytes (0x0C, 0x1D, 0x89) in high, mid, low order.
C29_Word315Amended ==
    (call.name = "setFrequency" /\ call.args = <<315000000>>) =>
        /\ F_XOSC = 26000000
        /\ MulDiv65536(315000000, F_XOSC) = 793993
        /\ 793993 = 12 * 65536 + 29 * 256 + 137
        /\ << WritesTo(log, FREQ2) # {}, ValuesWritten(log, FREQ2),
              ValuesWritten(log, FREQ1), ValuesWritten(log, FREQ0) >>
             = << TRUE, {12}, {29}, {137} >>
        /\ WrittenBefore(log, FREQ2, FREQ1)
        /\ WrittenBefore(log, FREQ1, FREQ0)

\* 315 MHz was programmed on a clean line and the chip holds the three bytes
C29_Witness ==
    /\ call.name = "setFrequency" /\ call.args = <<315000000>>
    /\ call.line = HonestLine
    /\ chip.regs[FREQ2] = 12 /\ chip.regs[FREQ1] = 29 /\ chip.regs[FREQ0] = 137

\* C30: setFrequency(hz) with hz < 300,000,000 or hz > 928,000,000 is
\* rejected: no bus transfer, the select line untouched and no register
\* changed; 300,000,000 and 928,000,000 themselves are accepted and
\* programmed.
C30_FrequencyRange ==
    [][(call'.name = "setFrequency") =>
          /\ ~Accepted(call'.args[1]) =>
                /\ log' = <<>> /\ csn' = csn
                /\ chip' = chip
          /\ call'.args[1] \in {300000000, 928000000} =>
                /\ WrittenBefore(log', FREQ2, FREQ1)
                /\ WrittenBefore(log', FREQ1, FREQ0)]_vars

\* a frequency one above the upper bound was rejected on a chip programmed
\* earlier
C30_Witness ==
    /\ call.name = "setFrequency" /\ call.args = <<928000001>>
    /\ log = <<>> /\ chip.regs[FREQ2] = 35

\* the lower bound was accepted
C30_WitnessBound ==
    /\ call.name = "setFrequency" /\ call.args = <<300000000>>
    /\ chip.regs[FREQ2] = 11 /\ chip.regs[FREQ1] = 137 /\ chip.regs[FREQ0] = 216


BusOperations == {"writeRegister", "readRegister", "readBack",
                  "writeBurstRegister", "readBurstRegister", "strobeCommand"}

\* C31: every byte exchanged by writeRegister, readRegister, writeBurst,
\* readBurst and strobeCommand is transferred while the select line is
\* asserted (LOW), and the select line is deasserted (HIGH) when the
\* operation returns, on every exit path: validation failure, success,
\* exhausted retries.
C31_SelectHeldDuringTransfers ==
    (call.name \in BusOperations) =>
        /\ \A i \in 1..Len(log) : log[i].e = "xfer" => log[i].c = 0
        /\ csn = 1
        /\ (log # <<>>) => (log[1] = Ev("csn", 0, 0) /\ log[Len(log)] = Ev("csn", 1, 0))

\* writeRegister returned after three attempts whose read-back failed
C31_Witness ==
    /\ call.name = "writeRegister" /\ ret.writes = 3 /\ ret.attempts = 3
    /\ NumXfers(log) >= 12 /\ csn = 1

\* a burst read was refused by its validation without touching the bus
C31_WitnessRefused ==
    /\ call.name = "readBurstRegister" /\ log = <<>> /\ csn = 1
    /\ NumXfers(log) = 0 /\ call.args[2] = 65

\* a strobe succeeded at its first send
C31_WitnessStrobe ==
    /\ call.name = "strobeCommand" /\ ret.ret /\ ret.sends = 1
    /\ NumXfers(log) = 3 /\ csn = 1


\* a step of the interrupt handler: it alone clears the pending edge
IsrStep == mcu.edge /\ ~mcu'.edge

\* a step that exchanged bytes with the chip
BusStep == NumXfers(log') > 0 /\ (log' # log \/ chip' # chip \/ line' # line)

\* C32: the edge-interrupt handler (rawISRbuttonPressed -> startDebounce)
\* only sets debounce flag, buffer and timer state: it performs no bus
\* transaction, invokes no registered callback and returns to the statement
\* it interrupted; bus transactions happen only on the main loop, in
\* transmitFrame inside update() or in the periodic status poll, and press
\* callbacks only inside update().
C32_InterruptOnlyArms ==
    [][/\ IsrStep =>
            /\ UNCHANGED <<chip, line, csn, log, pin, thresholdPercentage,
                           callbacks, stableState, delayTime>>
            /\ session'.fired = session.fired
            /\ mcu' = [mcu EXCEPT !.edge = FALSE]
       /\ BusStep =>
            /\ ~IsrStep
            /\ mcu.pc \in {"transmitFrame", "poll"}
       /\ (Len(session'.fired) > Len(session.fired)) =>
            /\ ~IsrStep
            /\ mcu.pc \in {"callbacks", "interrupts"}]_vars

\* the handler ran between two statements of update() and armed nothing
C32_Witness ==
    /\ session.isrs = 1 /\ mcu.pc = "head" /\ ~mcu.edge
    /\ debouncing /\ log = <<>>

\* the press callback ran inside update() after the handler had armed the
\* engine
C32_WitnessCallback ==
    /\ session.fired = <<1>> /\ mcu.pc = "callbacks" /\ pressedDetected

InsideCallback == {"wdt_disable", "call", "transmitFrame", "wdt_enable", "interrupts"}

\* C33: in the application the interrupt handler cannot run between the
\* start and the return of a transmitFrame call: interrupts are disabled
\* before the call and enabled again only after it returns; when the press
\* callback returns, interrupts and the watchdog are both enabled, whether
\* the transmission succeeded or failed.
C33_NoInterruptDuringTransmit ==
    [][/\ (mcu.pc \in InsideCallback) => ~mcu.interrupts
       /\ IsrStep => mcu.pc \notin InsideCallback
       /\ (mcu.pc = "transmitFrame") => ~mcu'.interrupts
       /\ (mcu.pc = "interrupts" /\ mcu'.pc = "callbacks") =>
             /\ mcu'.interrupts /\ mcu'.watchdog
             /\ call'.name = "onButtonPressed"]_vars

\* the callback returned after a failed transmission, with an edge that
\* arrived during the transmission still pending
C33_Witness ==
    /\ mcu.pc = "callbacks" /\ mcu.cb = 2 /\ session.fired = <<1>>
    /\ ret.ret = FALSE /\ mcu.interrupts /\ mcu.watchdog /\ mcu.edge

\* the callback returned after a successful transmission
C33_WitnessSuccess ==
    /\ mcu.pc = "callbacks" /\ mcu.cb = 2 /\ session.fired = <<1>>
    /\ ret.ret = TRUE /\ mcu.interrupts /\ mcu.watchdog

\* the engine without its sample timer
Core(d) ==
    [debouncing |-> d.debouncing, stableState |-> d.stableState,
     pressedDetected |-> d.pressedDetected, buffer |-> d.buffer, head |-> d.head,
     thresholdPercentage |-> d.thresholdPercentage, callbacks |-> d.callbacks]

\* what update() read from the timer and the pin (a value it did not read
\* is one that makes it return without sampling)
TimerRead(h) == h.timer = "elapsed"
PinRead(h)   == h.raw # "low"

\* update() entirely before the handler
HandlerAfter(h) ==
    LET u == update([h.start EXCEPT !.elapsed = TimerRead(h)], PinRead(h))
    IN  <<Core(startDebounce(u.d)), u.invoked>>

\* the handler entirely before update()
HandlerBefore(h) ==
    LET u == update([startDebounce(h.start) EXCEPT !.elapsed = TimerRead(h)],
                    PinRead(h))
    IN  <<Core(u.d), u.invoked>>

\* C38: if the edge interrupt (startDebounce) runs between two statements of
\* an update() on the main loop, the engine state and the callbacks invoked
\* when update() returns are those of startDebounce run entirely before or
\* entirely after that update(), for every order of the stores of the
\* release branch.
C38_InterleavingIsSequential ==
    (session.returned /\ session.isrs = 1) =>
        <<Core(session.end), session.fired>>
            \in {HandlerAfter(session), HandlerBefore(session)}

\* the handler armed a new session between the stores of the release branch
C38_Witness ==
    /\ session.returned /\ session.isrs = 1
    /\ session.start.pressedDetected
    /\ session.end.debouncing /\ ~session.end.pressedDetected
    /\ HandlerAfter(session) # HandlerBefore(session)

\* the handler ran inside an update() that took a sample of the held button
C38_WitnessSample ==
    /\ session.returned /\ session.isrs = 1 /\ session.raw = "low"
    /\ session.end.debouncing /\ session.end.head = 3


\* the number of transactions in a log: one per select edge, so that the
\* command byte of strobeCommand, sent inside two nested applyTransaction
\* calls, counts twice
Transactions(l) == Cardinality({i \in 1..Len(l) : l[i] = Ev("csn", 0, 0)})

IsReadResult(r) == r.status \in 0..255 /\ r.value \in 0..255

\* C34: whatever the line returns, readRegister, writeRegister,
\* readBurstRegister, strobeCommand, transmitFrame and the final identity
\* check of begin() return a boolean or a ReadResult after a bounded number
\* of transactions, each retry loop having run at most 3 times:
\* 3 for a read, 3 * (1 + 3) for a write, 3 * (2 + 3) for a strobe,
\* 3 * (3 + 3) for the identity check, and 3 + 3 * 15 + 3 * (15 + 3) + 15
\* for transmitFrame.
C34_BoundedRetries ==
    /\ call.name = "readRegister" =>
          /\ Transactions(log) <= 3 /\ ret.attempts <= 3
          /\ IsReadResult(ret.ret)
    /\ call.name = "writeRegister" =>
          /\ Transactions(log) <= 12 /\ ret.writes <= 3 /\ ret.attempts <= 3
          /\ ret.ret \in BOOLEAN
    /\ call.name = "readBurstRegister" =>
          /\ Transactions(log) <= 3 /\ ret.reads <= 3
          /\ ret.ret \in BOOLEAN
    /\ call.name = "strobeCommand" =>
          /\ Transactions(log) <= 15 /\ ret.sends <= 3
          /\ ret.ret \in BOOLEAN
    /\ call.name = "beginVerify" =>
          /\ Transactions(log) <= 18 /\ Len(ret.checks) <= 3
          /\ ret.ret \in BOOLEAN
    /\ call.name = "transmitFrame" =>
          /\ Transactions(log) <= 117
          /\ ret.ret \in BOOLEAN

\* a command sent three times, each followed by three refused reads
C34_Witness ==
    /\ call.name = "strobeCommand" /\ ret.sends = 3 /\ ~ret.ret
    /\ Transactions(log) = 15

\* transmitFrame giving up after every loop ran out
C34_WitnessTransmit ==
    /\ call.name = "transmitFrame" /\ ~ret.ret /\ ret.idleFailed
    /\ Transactions(log) = 63

\* the identity check of begin() failing three times
C34_WitnessVerify ==
    /\ call.name = "beginVerify" /\ ~ret.ret /\ Len(ret.checks) = 3
    /\ Transactions(log) = 9


\* the microseconds waited in l[lo..hi]
RECURSIVE PulseTime(_, _, _)
PulseTime(l, lo, hi) ==
    CASE lo > hi -> 0
      [] lo = hi -> IF l[lo].e = "delayUs" THEN l[lo].a ELSE 0
      [] lo < hi -> PulseTime(l, lo, (lo + hi) \div 2)
                        + PulseTime(l, (lo + hi) \div 2 + 1, hi)

\* the symbol announced at l[i] is made of the n events that follow it, the
\* next symbol starts right after them, and its waits add up to us
SymbolLasts(l, i, n, us) ==
    /\ i + n + 1 <= Len(l)
    /\ \A j \in (i + 1)..(i + n) : l[j].e \in {"pin", "delayUs"}
    /\ l[i + n + 1].e \in Symbols
    /\ PulseTime(l, i, i + n) = us

\* C35: in the waveform of transmitFrame every symbol of a word (logic 1,
\* logic 0, trailer) waits exactly one digit period of 5000 us, the silence
\* between words exactly 3 digit periods (15000 us), and the waits of the
\* whole frame add up to
\* preamble + (1 + repeats) * (N + 1) * 5000 + repeats * 15000 us,
\* which is 235000 us for N = 8, 3 repeats and a preamble of 10000 us.
C35_PulseTimes ==
    call.name = "transmitFrame" =>
        /\ \A i \in ret.streamFrom..ret.streamTo :
              /\ log[i].e \in {"sendOne", "sendZero", "sendOpen"} =>
                    SymbolLasts(log, i, 8, 5000)
              /\ log[i].e = "sendSilence" => SymbolLasts(log, i, 3, 15000)
        /\ DIGIT_PERIOD_US = 5000
        /\ FRAME_SILENCE_BETWEEN_WORDS = 3 * DIGIT_PERIOD_US
        /\ PulseTime(log, ret.streamFrom, ret.streamTo)
              = PREAMBLE_LOW_DURATION_US
                  + (1 + FRAME_REPEATS) * (Len(call.args) + 1) * 5000
                  + FRAME_REPEATS * 15000
        /\ (Len(call.args) = 8) =>
              PulseTime(log, ret.streamFrom, ret.streamTo) = 235000

\* a frame of 8 bits with both logic symbols was streamed in 235000 us
C35_Witness ==
    /\ call.name = "transmitFrame" /\ Len(call.args) = 8
    /\ \E i, j \in ret.streamFrom..ret.streamTo :
          log[i].e = "sendOne" /\ log[j].e = "sendZero"
    /\ PulseTime(log, ret.streamFrom, ret.streamTo) = 235000

\* a frame of 2 bits was streamed in 115000 us
C35_WitnessShort ==
    /\ call.name = "transmitFrame" /\ Len(call.args) = 2
    /\ PulseTime(log, ret.streamFrom, ret.streamTo) = 115000


\* C36: between calls of startDebounce, update and reset the stable state
\* equals the press-fired flag, and stable = pressed implies that the engine
\* is armed; so startDebounce on a disarmed engine always arms it.
C36_StableIsPressFired ==
    /\ stableState = pressedDetected
    /\ stableState => debouncing
    /\ ~debouncing => startDebounce(Deb).debouncing

\* a trigger refused by an armed engine whose press had fired
C36_Witness ==
    /\ call.name = "startDebounce" /\ ~ret.armed
    /\ stableState /\ pressedDetected /\ debouncing

\* reset() called after the press had fired
C36_WitnessReset ==
    /\ call.name = "reset" /\ ret.before.stableState
    /\ ~stableState /\ ~pressedDetected /\ ~debouncing

\* the buffer has BUFFER_SIZE slots, the cursor is one of them, and a
\* disarmed engine has an empty buffer with the cursor at 0
BufferShape(buf, h, armed) ==
    /\ DOMAIN buf = 0..(BUFFER_SIZE - 1)
    /\ h \in 0..(BUFFER_SIZE - 1)
    /\ ~armed => (buf = AllFalse /\ h = 0)

\* C37: the debounce buffer always has exactly BUFFER_SIZE slots and the
\* write cursor is always in 0..BUFFER_SIZE-1; an update() that samples and
\* confirms no release writes the sample at the cursor, leaves the other
\* slots alone and advances the cursor modulo BUFFER_SIZE; whenever the
\* engine is disarmed the buffer is all false and the cursor is 0.
C37_BufferShape ==
    [][/\ BufferShape(buffer, head, debouncing)
       /\ BufferShape(buffer', head', debouncing')
       /\ (call'.name = "update" /\ ret'.sampled /\ debouncing') =>
             /\ head' = (head + 1) % BUFFER_SIZE
             /\ buffer'[head] = ~pin
             /\ \A i \in 0..(BUFFER_SIZE - 1) : i # head => buffer'[i] = buffer[i]
       /\ (call'.name = "update" /\ ~ret'.sampled) =>
             UNCHANGED <<buffer, head>>
       /\ (call'.name = "startDebounce" /\ ret'.armed) =>
             (buffer' = AllFalse /\ head' = 0)]_vars

\* the cursor wrapped: the 17th sample of a session overwrote slot 0
C37_Witness ==
    /\ call.name = "update" /\ ret.sampled /\ debouncing
    /\ session.samples = 17 /\ head = 1 /\ ~buffer[0]

\* a session ended by a confirmed release left an empty buffer
C37_WitnessReleased ==
    /\ session.phase = "released" /\ call.name = "update" /\ ret.sampled
    /\ ret.trueCount > 0
    /\ ~debouncing /\ buffer = AllFalse /\ head = 0


\* C39: for every threshold in 0..100, once a press has been confirmed no
\* release is confirmed (the engine does not disarm) as long as every
\* sample taken since arming has been active.
C39_HeldNeverReleases ==
    ~(session.phase = "released" /\ session.held)

\* at 40% (7 slots) the 8th active sample in a row released the press
C39_HeldReleasedAt40 ==
    /\ session.phase = "released" /\ session.held /\ session.run = 8
    /\ thresholdPercentage = 40 /\ ~debouncing /\ ~pin

\* the same for the thresholds whose count is at least half the buffer
C39_HeldNeverReleasesFromHalf ==
    (2 * thresholdCount(Deb) >= BUFFER_SIZE) =>
        ~(session.phase = "released" /\ session.held)

\* a press confirmed and kept through a full buffer of active samples
C39_WitnessKept ==
    /\ session.phase = "fired" /\ session.held /\ session.run = BUFFER_SIZE
    /\ debouncing /\ thresholdPercentage = 44

\* C40: under fair sampling, for any threshold in 0..100: an armed engine
\* whose press has not fired fires it (invoking the callbacks) unless the
\* input goes inactive, and has fired it once BUFFER_SIZE consecutive
\* samples were active; an armed engine whose press has fired disarms
\* unless the input goes active again, and has disarmed once BUFFER_SIZE
\* consecutive samples were inactive.
C40_SessionsEnd ==
    /\ [](/\ (debouncing /\ session.run = BUFFER_SIZE /\ session.active)
               => pressedDetected
          /\ ~(debouncing /\ pressedDetected
                 /\ session.run = BUFFER_SIZE /\ ~session.active))
    /\ [][(pressedDetected' /\ ~pressedDetected) => ret'.invoked = <<1>>]_vars
    /\ (debouncing /\ ~pressedDetected) ~> (pressedDetected \/ pin)
    /\ (debouncing /\ pressedDetected) ~> (~debouncing \/ ~pin)

\* at 100% the press fired at the 16th active sample
C40_Witness ==
    /\ session.phase = "fired" /\ session.run = BUFFER_SIZE /\ session.active
    /\ thresholdPercentage = 100 /\ debouncing /\ pressedDetected

\* at 100% the release was confirmed after the button was let go
C40_WitnessReleased ==
    /\ session.phase = "released" /\ ~session.active /\ ~session.held
    /\ thresholdPercentage = 100 /\ ~debouncing /\ pin

====
